---- MODULE Spec2Model ----
(***************************************************************************)
(* Detection stabilization of the adeline inference pipeline.              *)
(*                                                                         *)
(* Part 1 models TemporalHysteresisStabilizer of                           *)
(* quickstart/inference/adeline/detection_stabilization.py: the per-source *)
(* dict class_name -> list of DetectionTrack and the process() call that   *)
(* matches, creates, marks, emits and evicts.                              *)
(*                                                                         *)
(* Numbers: confidences are percentages (0.5 is 50), which the code only   *)
(* compares.  The x, y, width and height of a detection are floats that    *)
(* hold whole numbers (25 is 25.0), as a box given in pixels does: on such *)
(* values the float arithmetic of the code makes no rounding error, and    *)
(* the integer arithmetic here computes what the code computes.  On other  *)
(* floats (0.1, 0.05) the code's sums and products are rounded and can     *)
(* differ from the exact value in the last bits.                           *)
(*                                                                         *)
(* A python dict keeps insertion order and process() iterates over it, so  *)
(* a dict is a sequence of entries [cls, list] in insertion order.         *)
(* DetectionTrack.confidences only feeds the debug metadata of an emitted  *)
(* record (avg_confidence) and is never read by the tracking logic; it is  *)
(* not part of a track here.  last_seen_time is: it is the reading of the  *)
(* clock when the track was created or last updated.                       *)
(*                                                                         *)
(* Part 2 models inference/stabilization/matching.py, part 3 the box       *)
(* algebra of inference/roi/adaptive/geometry.py, part 4 ROIState of       *)
(* inference/roi/adaptive/state.py, part 5 the crop and the inference of   *)
(* inference/roi/adaptive/pipeline.py and part 6 the controller of         *)
(* app/controller.py.  Each part has its own specifications; the variables *)
(* of the other parts keep their initial value in them.                    *)
(***************************************************************************)
EXTENDS Integers, Sequences, FiniteSets, TLC

VARIABLES
    cfg,         \* the stabilizer's min_frames, max_gap, appear_conf, persist_conf
    tracks,      \* self._tracks: source_id -> dict class_name -> list of tracks
    frame,       \* number of process() calls made so far
    absentRun,   \* number of trailing consecutive calls with an empty detection list
    lastSrc,     \* source_id of the last process() call
    lastDets,    \* detections given to the last process() call
    prevTracks,  \* tracks[lastSrc] as it was when the last call began
    preEvict,    \* tracks[lastSrc] of the last call after step 3, before step 5
    matchLog,    \* what the loop of step 1 decided for each detection of the last call
    lastOut,     \* list returned by the last process() call; these five are empty
                 \* when reset() has been called since
    strategies,  \* HierarchicalMatcher.strategies: name, enabled flag and threshold of each
    probe,       \* the last find_best_match call: its arguments and what it returned
    geo,         \* the last call of a ROIBox operation: its arguments and the box it returned
    roiCfg,      \* ROIState's margin, smoothing_alpha, min_roi_size, imgsz and multiples;
                 \* None while there is no ROIState
    roi,         \* ROIState._roi_by_source: a dict source_id -> box or None
    roiCall,     \* the last ROIState call: its arguments and the dict it started from
    clock,       \* time.time(), read by DetectionTrack for last_seen_time
    tape,        \* the frames given to the stabilizer so far, with what each call returned
    replica,     \* the tracks of a second stabilizer of the same configuration
    replicaOut,  \* list returned by the replica's last process() call
    replayed,    \* number of frames of the tape the replica has processed
    fnCall,      \* the last call of a stateless function: its arguments and its result;
                 \* for the controller, the inference handler's call whose prediction
                 \* the sink has yet to take
    built,       \* the last construction of a stabilizer or ROI strategy and its outcome
    ctlCfg,      \* the controller's config: ROI_MODE and STABILIZATION_MODE
    phase,       \* how far InferencePipelineController.run() has come
    pipeline,    \* self.pipeline: None, or how often terminate() has returned normally
    registry,    \* control_plane.command_registry._commands: the command names registered
    callbacks,   \* the on_... attributes the controller has set on its control plane
    is_running,  \* self.is_running
    shutdown_event,  \* self.shutdown_event.is_set()
    handler,     \* self.inference_handler: None, or its class and its _enabled flag
    pcMqtt,      \* the statement the control plane's thread stands at in a handler
    pcMain,      \* the statement the main thread stands at in cleanup()
    pcSig,       \* the signal handlers running on the main thread, the innermost first:
                 \* the statement each stands at
    pcPipe,      \* the pipeline's inference thread inside the handler's call: the flag
                 \* __call__ has read and the frame's object; empty between frames
    pcSink,      \* the pipeline's dispatching thread inside update_from_detections: the
                 \* box it has yet to store; empty otherwise
    stops,       \* number of STOP commands and signals delivered so far
    ctlCall      \* the handler the control plane's thread runs or has last run

vars == <<cfg, tracks, frame, absentRun, lastSrc, lastDets, prevTracks,
          preEvict, matchLog, lastOut, strategies, probe, geo, roiCfg, roi, roiCall,
          clock, tape, replica, replicaOut, replayed, fnCall, built,
          ctlCfg, phase, pipeline, registry, callbacks, is_running, shutdown_event,
          handler, pcMqtt, pcMain, pcSig, pcPipe, pcSink, stops, ctlCall>>

stabVars == <<cfg, tracks, frame, absentRun, lastSrc, lastDets, prevTracks,
              preEvict, matchLog, lastOut>>
replayVars == <<clock, tape, replica, replicaOut, replayed>>

\* the variables of the parts of the pipeline a specification leaves alone
matcherVars == <<strategies, probe>>
roiVars == <<geo, roiCfg, roi, roiCall>>
ctlVars == <<ctlCfg, phase, pipeline, registry, callbacks, is_running, shutdown_event,
             handler, pcMqtt, pcMain, pcSig, pcPipe, pcSink, stops, ctlCall>>
auxVars == <<fnCall, built, ctlVars>>

(***************************************************************************)
(* Bounds of the exploration.                                              *)
(***************************************************************************)
MaxMinFrames == 2
MaxMaxGap == 1
MaxDets == 2
MaxFrames == 4

DefaultSource == 0
DefaultAppearConf == 50
DefaultPersistConf == 30

Sources == {DefaultSource}
ConfLevels == {20, 40, 60}
\* confidences at or above appear_conf
HighConfs == {60, 80}

BoxL == [x |-> 25, y |-> 50, width |-> 15, height |-> 20]
BoxR == [x |-> 75, y |-> 50, width |-> 15, height |-> 20]
Boxes == {BoxL, BoxR}

Det(c, conf, b) ==
    [x |-> b.x, y |-> b.y, width |-> b.width, height |-> b.height,
     class |-> c, confidence |-> conf]

\* the detections a frame is made of: a person at any confidence level and either
\* box, and a car
Detections ==
    {Det("person", conf, b) : conf \in ConfLevels, b \in Boxes}
        \cup {Det("car", 60, BoxL)}

SeqsUpTo(S, n) == UNION {[1..k -> S] : k \in 0..n}

FrameInputs == SeqsUpTo(Detections, MaxDets)

Configs ==
    {[min_frames |-> m, max_gap |-> g,
      appear_conf |-> DefaultAppearConf, persist_conf |-> DefaultPersistConf] :
        m \in 1..MaxMinFrames, g \in 0..MaxMaxGap}

\* None, where python has it
None == [none |-> TRUE]

\* ROIState.__init__'s default min_roi_size, a percentage
DefaultMinRoiSize == 30

\* the empty dict of ROIState.__init__
EmptyRoiDict == [s \in {} |-> None]

\* no ROIState has been constructed and no ROIBox operation called
RoiIdle ==
    /\ geo = <<>>
    /\ roiCfg = None
    /\ roi = EmptyRoiDict
    /\ roiCall = <<>>

\* InferencePipelineController.__init__ with a given config: nothing set up yet
Constructed(config) ==
    /\ ctlCfg = config
    /\ phase = "constructed"
    /\ pipeline = None
    /\ registry = {}
    /\ callbacks = {}
    /\ is_running = FALSE
    /\ shutdown_event = FALSE
    /\ handler = None
    /\ pcMqtt = "idle"
    /\ pcMain = "idle"
    /\ pcSig = <<>>
    /\ pcPipe = <<>>
    /\ pcSink = <<>>
    /\ stops = 0
    /\ ctlCall = <<>>

\* roi_strategy.mode and detection_stabilization.mode as the config files ship them
DefaultControllerConfig == [ROI_MODE |-> "none", STABILIZATION_MODE |-> "none"]

\* nothing called, nothing constructed
AuxIdle ==
    /\ fnCall = <<>>
    /\ built = <<>>
    /\ Constructed(DefaultControllerConfig)

\* no second stabilizer, and a clock that stands still
ReplayIdle ==
    /\ clock = 0
    /\ tape = <<>>
    /\ replica = <<>>
    /\ replicaOut = <<>>
    /\ replayed = 0

(***************************************************************************)
(* Dict helpers.                                                           *)
(***************************************************************************)
HasClass(d, c) == \E k \in DOMAIN d : d[k].cls = c

ClassPos(d, c) == CHOOSE k \in DOMAIN d : d[k].cls = c

TracksOf(d, c) == IF HasClass(d, c) THEN d[ClassPos(d, c)].list ELSE <<>>

\* tracks[class_name].append(t) on a defaultdict(list)
AppendTrack(d, c, t) ==
    IF HasClass(d, c)
    THEN [d EXCEPT ![ClassPos(d, c)].list = Append(@, t)]
    ELSE Append(d, [cls |-> c, list |-> <<t>>])

\* every track of a source's dict, as a set
AllTracks(d) == UNION {{d[k].list[i] : i \in DOMAIN d[k].list} : k \in DOMAIN d}

\* stats['active_tracks'] = sum(len(tl) for tl in tracks.values())
RECURSIVE NumTracks(_)
NumTracks(d) == IF d = <<>> THEN 0 ELSE Len(Head(d).list) + NumTracks(Tail(d))

(***************************************************************************)
(* DetectionTrack.                                                         *)
(***************************************************************************)
\* now is what time.time() returns when the statement runs
update(t, det, now) ==
    [t EXCEPT !.confidence = det.confidence,
              !.x = det.x, !.y = det.y,
              !.width = det.width, !.height = det.height,
              !.consecutive_frames = @ + 1,
              !.gap_frames = 0,
              !.last_seen_time = now]

\* mutant: a missed frame also takes the confirmation back
mark_missed_unconfirms(t) ==
    [t EXCEPT !.consecutive_frames = 0, !.gap_frames = @ + 1, !.confirmed = FALSE]

mark_missed(t) ==
    [t EXCEPT !.consecutive_frames = 0, !.gap_frames = @ + 1]

\* DetectionTrack(...): last_seen_time is filled by its default_factory, time.time()
NewTrack(det, now) ==
    [x |-> det.x, y |-> det.y, width |-> det.width, height |-> det.height,
     confidence |-> det.confidence,
     consecutive_frames |-> 1, gap_frames |-> 0, last_seen_time |-> now,
     confirmed |-> FALSE, class_name |-> det.class]

(***************************************************************************)
(* process(), step 1: match each detection to an existing track.           *)
(***************************************************************************)
\* mutant: no hysteresis, appear_conf for every track
Threshold_appearOnly(t, c) == c.appear_conf

\* threshold = persist_conf if track.confirmed else appear_conf
Threshold(t, c) == IF t.confirmed THEN c.persist_conf ELSE c.appear_conf

\* the body of the matched branch: update and confirm, or mark missed
ApplyMatch(t, det, c, now) ==
    IF det.confidence >= Threshold(t, c)
    THEN LET u == update(t, det, now)
         IN IF ~u.confirmed /\ u.consecutive_frames >= c.min_frames
            THEN [u EXCEPT !.confirmed = TRUE]
            ELSE u
    ELSE mark_missed(t)

\* mutant: the first track of the class, matched already or not
FirstUnmatched_ignoresMatched(d, c, matched) ==
    IF TracksOf(d, c) = <<>> THEN 0 ELSE 1

\* first index of the class's list whose (class_name, idx) is not matched yet; 0 if none
FirstUnmatched(d, c, matched) ==
    LET l == TracksOf(d, c)
        free == {i \in DOMAIN l : <<c, i>> \notin matched}
    IN IF free = {} THEN 0 ELSE CHOOSE i \in free : \A j \in free : i <= j

\* mutant: a track is created from persist_conf on
HandleUnmatched_persistConf(d, det, c, now) ==
    IF det.confidence >= c.persist_conf
    THEN AppendTrack(d, det.class, NewTrack(det, now))
    ELSE d

\* the "if not matched" branch: create a track when confidence >= appear_conf
HandleUnmatched(d, det, c, now) ==
    IF det.confidence >= c.appear_conf
    THEN AppendTrack(d, det.class, NewTrack(det, now))
    ELSE d

\* one iteration of "for det in detections"; the iteration reads the clock at most
\* once, in update() or in the construction of the new track
MatchStep(st, det, c, now) ==
    LET idx == FirstUnmatched(st.tracks, det.class, st.matched)
    IN IF idx # 0
       THEN LET k == ClassPos(st.tracks, det.class)
                t == st.tracks[k].list[idx]
            IN [tracks  |-> [st.tracks EXCEPT ![k].list[idx] = ApplyMatch(t, det, c, now)],
                matched |-> st.matched \cup {<<det.class, idx>>},
                log     |-> Append(st.log,
                               [cls |-> det.class, det |-> det, idx |-> idx,
                                kind |-> "matched", before |-> t])]
       ELSE [tracks  |-> HandleUnmatched(st.tracks, det, c, now),
             matched |-> st.matched,
             log     |-> Append(st.log,
                            [cls |-> det.class, det |-> det,
                             idx |-> Len(TracksOf(st.tracks, det.class)) + 1,
                             kind |-> "unmatched", before |-> NewTrack(det, now)])]

\* readings[i] is the reading of the clock in the iteration of the i-th detection
RECURSIVE MatchLoop(_, _, _, _)
MatchLoop(st, dets, c, readings) ==
    IF dets = <<>> THEN st
    ELSE MatchLoop(MatchStep(st, Head(dets), c, Head(readings)), Tail(dets), c, Tail(readings))

(***************************************************************************)
(* process(), step 3: tracks whose (class_name, idx) is not matched.       *)
(***************************************************************************)
\* mutant: every track is marked, matched or not
MarkUnmatched_all(d, matched) ==
    [k \in DOMAIN d |->
        [d[k] EXCEPT !.list = [i \in DOMAIN d[k].list |-> mark_missed(d[k].list[i])]]]

MarkUnmatched(d, matched) ==
    [k \in DOMAIN d |->
        [d[k] EXCEPT !.list =
            [i \in DOMAIN d[k].list |->
                IF <<d[k].cls, i>> \notin matched
                THEN mark_missed(d[k].list[i])
                ELSE d[k].list[i]]]]

(***************************************************************************)
(* process(), step 4: emit the confirmed tracks seen in this frame.        *)
(***************************************************************************)
Emitted(t) ==
    [x |-> t.x, y |-> t.y, width |-> t.width, height |-> t.height,
     class |-> t.class_name, confidence |-> t.confidence]

\* mutant: confirmed tracks are emitted whether seen in this frame or not
ShouldEmit_confirmedOnly(t) == t.confirmed

ShouldEmit(t) == t.confirmed /\ t.gap_frames = 0

RECURSIVE EmitList(_)
EmitList(l) ==
    IF l = <<>> THEN <<>>
    ELSE (IF ShouldEmit(Head(l)) THEN <<Emitted(Head(l))>> ELSE <<>>) \o EmitList(Tail(l))

RECURSIVE Emit(_)
Emit(d) ==
    IF d = <<>> THEN <<>> ELSE EmitList(Head(d).list) \o Emit(Tail(d))

(***************************************************************************)
(* process(), step 5: drop expired tracks, then classes left empty.        *)
(***************************************************************************)
\* mutant: a track expires by the time elapsed since it was last seen
Alive_byElapsedTime(t, c) == clock - t.last_seen_time <= c.max_gap

Alive(t, c) == t.gap_frames <= c.max_gap

RECURSIVE FilterAlive(_, _)
FilterAlive(l, c) ==
    IF l = <<>> THEN <<>>
    ELSE (IF Alive(Head(l), c) THEN <<Head(l)>> ELSE <<>>) \o FilterAlive(Tail(l), c)

RECURSIVE Evict(_, _)
Evict(d, c) ==
    IF d = <<>> THEN <<>>
    ELSE LET l == FilterAlive(Head(d).list, c)
         IN (IF l = <<>> THEN <<>> ELSE <<[cls |-> Head(d).cls, list |-> l]>>)
            \o Evict(Tail(d), c)

(***************************************************************************)
(* TemporalHysteresisStabilizer.process(detections, source_id) on the dict *)
(* d of that source.                                                       *)
(***************************************************************************)
\* the readings of a call during which the clock does not move
Still(dets) == [i \in DOMAIN dets |-> clock]

process(d, dets, c, readings) ==
    LET m      == MatchLoop([tracks |-> d, matched |-> {}, log |-> <<>>], dets, c, readings)
        marked == MarkUnmatched(m.tracks, m.matched)
    IN [tracks |-> Evict(marked, c),
        log    |-> m.log,
        marked |-> marked,
        out    |-> Emit(marked)]

(***************************************************************************)
(* Part 2: inference/stabilization/matching.py.  A similarity score is a   *)
(* fraction [num, den] with den > 0, compared by cross-multiplication; a   *)
(* threshold is a percentage.  Box corners are kept doubled (x1_min is     *)
(* 2 * (x - width / 2)) so that halves stay integers.  The coordinates are *)
(* whole numbers: corners, areas and their sums are then exact in the      *)
(* code's floats, the one rounding is that of the final quotient, and two  *)
(* different quotients of such areas, or one of them and a threshold, are  *)
(* further apart than that rounding.                                       *)
(***************************************************************************)
DefaultIoUThreshold == 30
ClassOnlyThreshold == 50

Zero == [num |-> 0, den |-> 1]
One == [num |-> 1, den |-> 1]

ScoreGT(a, b) == a.num * b.den > b.num * a.den

\* score >= threshold, the threshold a percentage
MeetsThreshold(a, thr) == a.num * 100 >= thr * a.den

Max2(a, b) == IF a >= b THEN a ELSE b
Min2(a, b) == IF a <= b THEN a ELSE b

\* mutant: the intersection is not taken off the sum of the areas
calculate_iou_sumOfAreas(bbox1, bbox2) ==
    LET inter_x_min == Max2(2 * bbox1.x - bbox1.width, 2 * bbox2.x - bbox2.width)
        inter_y_min == Max2(2 * bbox1.y - bbox1.height, 2 * bbox2.y - bbox2.height)
        inter_x_max == Min2(2 * bbox1.x + bbox1.width, 2 * bbox2.x + bbox2.width)
        inter_y_max == Min2(2 * bbox1.y + bbox1.height, 2 * bbox2.y + bbox2.height)
        inter_area == (inter_x_max - inter_x_min) * (inter_y_max - inter_y_min)
        union_area == 4 * bbox1.width * bbox1.height + 4 * bbox2.width * bbox2.height
    IN IF inter_x_max < inter_x_min \/ inter_y_max < inter_y_min THEN Zero
       ELSE IF union_area <= 0 THEN Zero
       ELSE [num |-> inter_area, den |-> union_area]

calculate_iou(bbox1, bbox2) ==
    LET x1_min == 2 * bbox1.x - bbox1.width
        y1_min == 2 * bbox1.y - bbox1.height
        x1_max == 2 * bbox1.x + bbox1.width
        y1_max == 2 * bbox1.y + bbox1.height
        x2_min == 2 * bbox2.x - bbox2.width
        y2_min == 2 * bbox2.y - bbox2.height
        x2_max == 2 * bbox2.x + bbox2.width
        y2_max == 2 * bbox2.y + bbox2.height
        inter_x_min == Max2(x1_min, x2_min)
        inter_y_min == Max2(y1_min, y2_min)
        inter_x_max == Min2(x1_max, x2_max)
        inter_y_max == Min2(y1_max, y2_max)
        inter_area == (inter_x_max - inter_x_min) * (inter_y_max - inter_y_min)
        area1 == 4 * bbox1.width * bbox1.height
        area2 == 4 * bbox2.width * bbox2.height
        union_area == area1 + area2 - inter_area
    IN IF inter_x_max < inter_x_min \/ inter_y_max < inter_y_min THEN Zero
       ELSE IF union_area <= 0 THEN Zero
       ELSE [num |-> inter_area, den |-> union_area]

\* IoUMatchingStrategy.calculate_similarity
IoUSimilarity(detection, track) ==
    IF detection.class # track.class_name THEN Zero
    ELSE calculate_iou(detection, track)

\* mutant: the class is not looked at
ClassOnlySimilarity_anyClass(detection, track) == One

\* ClassOnlyStrategy.calculate_similarity
ClassOnlySimilarity(detection, track) ==
    IF detection.class = track.class_name THEN One ELSE Zero

IoUStrategy(thr) ==
    [name |-> "IoUMatchingStrategy", enabled |-> TRUE, threshold |-> thr]

ClassOnlyStrategy ==
    [name |-> "ClassOnlyStrategy", enabled |-> TRUE, threshold |-> ClassOnlyThreshold]

\* HierarchicalMatcher.__init__ with strategies=None
DefaultStrategies(iou_threshold) == <<IoUStrategy(iou_threshold), ClassOnlyStrategy>>

calculate_similarity(strategy, detection, track) ==
    IF strategy.name = "IoUMatchingStrategy"
    THEN IoUSimilarity(detection, track)
    ELSE ClassOnlySimilarity(detection, track)

get_threshold(strategy) == strategy.threshold

NoMatch == [idx |-> 0, strategy |-> "none", found |-> FALSE, score |-> Zero]

\* the inner loop of find_best_match from index i on: best is the best so far
RECURSIVE ScanTracks(_, _, _, _, _, _)
ScanTracks(strategy, detection, trackList, matched_indices, i, best) ==
    IF i > Len(trackList) THEN best
    ELSE IF i \in matched_indices
    THEN ScanTracks(strategy, detection, trackList, matched_indices, i + 1, best)
    ELSE LET score == calculate_similarity(strategy, detection, trackList[i])
         IN IF ScoreGT(score, best.score) /\ MeetsThreshold(score, get_threshold(strategy))
            THEN ScanTracks(strategy, detection, trackList, matched_indices, i + 1,
                            [idx |-> i, strategy |-> strategy.name,
                             found |-> TRUE, score |-> score])
            ELSE ScanTracks(strategy, detection, trackList, matched_indices, i + 1, best)

\* mutant: the skip is inverted, only tracks matched already are looked at
BestOf_onlyMatched(strategy, detection, trackList, matched_indices) ==
    ScanTracks(strategy, detection, trackList,
               (1..Len(trackList)) \ matched_indices, 1, NoMatch)

\* the best unmatched track of one strategy
BestOf(strategy, detection, trackList, matched_indices) ==
    ScanTracks(strategy, detection, trackList, matched_indices, 1, NoMatch)

\* mutant: the enabled flag is not looked at
RECURSIVE TryStrategies_ignoresEnabled(_, _, _, _)
TryStrategies_ignoresEnabled(strats, detection, trackList, matched_indices) ==
    IF strats = <<>> THEN NoMatch
    ELSE LET b == BestOf(Head(strats), detection, trackList, matched_indices)
         IN IF b.found THEN b
            ELSE TryStrategies_ignoresEnabled(Tail(strats), detection, trackList,
                                              matched_indices)

\* mutant: nothing is tried after the first strategy
find_best_match_firstOnly(strats, detection, trackList, matched_indices) ==
    IF trackList = <<>> \/ strats = <<>> \/ ~Head(strats).enabled THEN NoMatch
    ELSE BestOf(Head(strats), detection, trackList, matched_indices)

RECURSIVE TryStrategies(_, _, _, _)
TryStrategies(strats, detection, trackList, matched_indices) ==
    IF strats = <<>> THEN NoMatch
    ELSE IF ~Head(strats).enabled
    THEN TryStrategies(Tail(strats), detection, trackList, matched_indices)
    ELSE LET b == BestOf(Head(strats), detection, trackList, matched_indices)
         IN IF b.found THEN b
            ELSE TryStrategies(Tail(strats), detection, trackList, matched_indices)

\* HierarchicalMatcher.find_best_match; indices are 1-based here
find_best_match(strats, detection, trackList, matched_indices) ==
    IF trackList = <<>> THEN NoMatch
    ELSE TryStrategies(strats, detection, trackList, matched_indices)

(***************************************************************************)
(* Part 3: inference/roi/adaptive/geometry.py.  A ROIBox is a record of    *)
(* four integer pixel coordinates; a frame shape is <<height, width>>.     *)
(* int() of a float truncates toward zero, // is floor division and        *)
(* round() rounds halves to the even neighbour.                            *)
(*                                                                         *)
(* margin and min_roi_size are percentages.  int(w * margin) is one float  *)
(* product; for the values used here (0, 0.1, 0.2, 0.25, 0.3, 0.5, 1.25)   *)
(* it truncates to what the exact product truncates to: the float of 0.1   *)
(* and of 0.2 lies above the decimal, 0.25, 0.5 and 1.25 are exact, and    *)
(* the float of 0.3 lies so little below 0.3 that a product that should be *)
(* whole still rounds to the whole number.  That is not so for every       *)
(* fraction: 0.7 * 90 is 62.99999999999999 in floats.                      *)
(*                                                                         *)
(* alpha is given in quarters (AlphaUnit): smooth_with adds two float      *)
(* products and truncates the sum, which is exact only when alpha and      *)
(* 1 - alpha are binary fractions.  With another alpha, such as ROIState's *)
(* default 0.3, the sum can fall just below a whole number the exact value *)
(* reaches, and the corner is one pixel less: 0.3 * 0 + 0.7 * 90 is        *)
(* 62.99999999999999, where the exact value is 63.                         *)
(***************************************************************************)
\* alpha is a number of quarters: 0, 0.25, 0.5, 0.75 and 1 are 0 .. 4
AlphaUnit == 4

ROIBox(x1, y1, x2, y2) == [x1 |-> x1, y1 |-> y1, x2 |-> x2, y2 |-> y2]

width(b) == b.x2 - b.x1

height(b) == b.y2 - b.y1

area(b) == width(b) * height(b)

is_square(b) == width(b) = height(b)

\* int(n / d) for d > 0
IntTrunc(n, d) == IF n >= 0 THEN n \div d ELSE -((-n) \div d)

\* round(n / d) for d > 0: to the nearest integer, a half to the even one
RoundHalfEven(n, d) ==
    LET fl == n \div d
        r2 == 2 * (n - fl * d)
    IN IF r2 < d THEN fl
       ELSE IF r2 > d THEN fl + 1
       ELSE IF fl % 2 = 0 THEN fl ELSE fl + 1

\* mutant: the margins are applied without clipping to the frame
expand_unclipped(b, margin, frame_shape, preserve_square) ==
    LET margin_x0 == IntTrunc(margin * frame_shape[2], 100)
        margin_y0 == IntTrunc(margin * frame_shape[1], 100)
        margin_px == Max2(margin_x0, margin_y0)
        margin_x == IF preserve_square /\ is_square(b) THEN margin_px ELSE margin_x0
        margin_y == IF preserve_square /\ is_square(b) THEN margin_px ELSE margin_y0
    IN ROIBox(b.x1 - margin_x, b.y1 - margin_y, b.x2 + margin_x, b.y2 + margin_y)

expand(b, margin, frame_shape, preserve_square) ==
    LET h == frame_shape[1]
        w == frame_shape[2]
        margin_x0 == IntTrunc(margin * w, 100)
        margin_y0 == IntTrunc(margin * h, 100)
        margin_px == Max2(margin_x0, margin_y0)
        margin_x == IF preserve_square /\ is_square(b) THEN margin_px ELSE margin_x0
        margin_y == IF preserve_square /\ is_square(b) THEN margin_px ELSE margin_y0
    IN ROIBox(Max2(0, b.x1 - margin_x), Max2(0, b.y1 - margin_y),
              Min2(w, b.x2 + margin_x), Min2(h, b.y2 + margin_y))

\* alpha * other + (1 - alpha) * self on every corner, truncated
Interpolate(self, other, alpha) ==
    ROIBox(IntTrunc(alpha * other.x1 + (AlphaUnit - alpha) * self.x1, AlphaUnit),
           IntTrunc(alpha * other.y1 + (AlphaUnit - alpha) * self.y1, AlphaUnit),
           IntTrunc(alpha * other.x2 + (AlphaUnit - alpha) * self.x2, AlphaUnit),
           IntTrunc(alpha * other.y2 + (AlphaUnit - alpha) * self.y2, AlphaUnit))

\* the box of side max(width, height) around the centre of the smoothed one
ForceSquare(smoothed) ==
    LET size == Max2(width(smoothed), height(smoothed))
        center_x == (smoothed.x1 + smoothed.x2) \div 2
        center_y == (smoothed.y1 + smoothed.y2) \div 2
        half_size == size \div 2
    IN ROIBox(center_x - half_size, center_y - half_size,
              center_x - half_size + size, center_y - half_size + size)

\* mutant: the interpolated corners are returned as they are
smooth_with_unforced(self, other, alpha) == Interpolate(self, other, alpha)

smooth_with(self, other, alpha) ==
    LET smoothed == Interpolate(self, other, alpha)
    IN IF is_square(self) /\ is_square(other) /\ ~is_square(smoothed)
       THEN ForceSquare(smoothed)
       ELSE smoothed

make_square_multiple(b, imgsz, min_multiple, max_multiple, frame_shape) ==
    LET max_side == Max2(width(b), height(b))
        rounded_multiple ==
            Max2(min_multiple, Min2(max_multiple, RoundHalfEven(max_side, imgsz)))
        square_size == rounded_multiple * imgsz
        center_x == (b.x1 + b.x2) \div 2
        center_y == (b.y1 + b.y2) \div 2
        half_size == square_size \div 2
        new_x1 == center_x - half_size
        new_y1 == center_y - half_size
        new_x2 == new_x1 + square_size
        new_y2 == new_y1 + square_size
        h == frame_shape[1]
        w == frame_shape[2]
    IN ROIBox(Max2(0, new_x1), Max2(0, new_y1), Min2(w, new_x2), Min2(h, new_y2))

(***************************************************************************)
(* Part 4: ROIState (state.py), the per-source store of boxes.  The dict   *)
(* _roi_by_source is a function whose domain is the set of keys; a key     *)
(* may hold None.  Detection centres and sizes are floats in the code and  *)
(* are given here in units of 1/DetScale pixel; the corners x -+ width / 2 *)
(* of sv.Detections.xyxy are then in units of 1/XyScale pixel, which int() *)
(* truncates.                                                              *)
(***************************************************************************)
DetScale == 2
XyScale == 2 * DetScale

\* the source_id argument of reset when it is None
NoSource == -1

\* dict[key] = value
Put(d, key, value) == [k \in DOMAIN d \cup {key} |-> IF k = key THEN value ELSE d[k]]

\* dict.get(source_id)
get_roi(d, source_id) == IF source_id \in DOMAIN d THEN d[source_id] ELSE None

MinOf(S) == CHOOSE v \in S : \A u \in S : v <= u

MaxOf(S) == CHOOSE v \in S : \A u \in S : v >= u

\* the box around all detections, corners truncated to whole pixels
EnclosingBox(detections) ==
    ROIBox(IntTrunc(MinOf({detections[i].x1 : i \in DOMAIN detections}), XyScale),
           IntTrunc(MinOf({detections[i].y1 : i \in DOMAIN detections}), XyScale),
           IntTrunc(MaxOf({detections[i].x2 : i \in DOMAIN detections}), XyScale),
           IntTrunc(MaxOf({detections[i].y2 : i \in DOMAIN detections}), XyScale))

\* steps 2 and 3: square in a multiple of imgsz, then the margin
NewRoi(c, detections, frame_shape) ==
    expand(make_square_multiple(EnclosingBox(detections), c.imgsz, c.min_roi_multiple,
                                c.max_roi_multiple, frame_shape),
           c.margin, frame_shape, TRUE)

\* roi_area < min_roi_size * frame_area
TooSmall(c, new_roi, frame_shape) ==
    width(new_roi) * height(new_roi) * 100
        < c.min_roi_size * frame_shape[1] * frame_shape[2]

\* mutant: a box that is too small leaves the stored value alone
update_from_detections_keepsPrevious(d, c, source_id, detections, frame_shape) ==
    IF detections = <<>> \/ TooSmall(c, NewRoi(c, detections, frame_shape), frame_shape)
    THEN d
    ELSE Put(d, source_id, NewRoi(c, detections, frame_shape))

\* update_from_detections gets as far as step 5, where it reads the stored box
ReadsPrevious(c, detections, frame_shape) ==
    detections # <<>> /\ ~TooSmall(c, NewRoi(c, detections, frame_shape), frame_shape)

\* step 5: the box to store, given the box prev_roi that was read
Smoothed(c, new_roi, prev_roi) ==
    IF prev_roi # None THEN smooth_with(new_roi, prev_roi, c.smoothing_alpha) ELSE new_roi

update_from_detections(d, c, source_id, detections, frame_shape) ==
    IF ReadsPrevious(c, detections, frame_shape)
    THEN Put(d, source_id,
             Smoothed(c, NewRoi(c, detections, frame_shape), get_roi(d, source_id)))
    ELSE Put(d, source_id, None)

\* mutant: every reset clears the whole dict
reset_clearsAll(d, source_id) == EmptyRoiDict

reset(d, source_id) ==
    IF source_id = NoSource THEN EmptyRoiDict ELSE Put(d, source_id, None)

(***************************************************************************)
(* Part 5: crop and coordinate transform (pipeline.py).  An image is the   *)
(* rectangle of the full frame it shows (view, in full-frame pixels) and   *)
(* its own shape <<height, width>>; the two differ after cv2.resize.  A    *)
(* predictions dict is a record; the key 'predictions' may be absent.      *)
(* Detection centres are in units of 1/DetScale pixel.                     *)
(***************************************************************************)
\* model_size when it is None: no size is below it
NoModelSize == 0

\* the image of a frame that shows all of itself
FullImage(frame_shape) ==
    [shape |-> frame_shape, view |-> ROIBox(0, 0, frame_shape[2], frame_shape[1])]

VideoFrame(image, source_id) == [source_id |-> source_id, image |-> image]

\* numpy: a slice bound counts from the end when negative and is clamped to the axis
SliceBound(i, n) == IF i < 0 THEN Max2(i + n, 0) ELSE Min2(i, n)

\* the indices start:stop select on an axis of length n, as <<first, past-the-last>>
SliceRange(start, stop, n) ==
    <<SliceBound(start, n), Max2(SliceBound(start, n), SliceBound(stop, n))>>

\* image[roi.y1:roi.y2, roi.x1:roi.x2]
CropView(image, box) ==
    LET rows == SliceRange(box.y1, box.y2, image.shape[1])
        cols == SliceRange(box.x1, box.x2, image.shape[2])
    IN [shape |-> <<rows[2] - rows[1], cols[2] - cols[1]>>,
        view |-> ROIBox(image.view.x1 + cols[1], image.view.y1 + rows[1],
                        image.view.x1 + cols[2], image.view.y1 + rows[2])]

\* ndarray.size
ImageSize(image) == image.shape[1] * image.shape[2]

\* cv2.resize to model_size x model_size when asked for and the crop is smaller
ResizeIfSmaller(image, model_size, resize_to_model) ==
    IF /\ resize_to_model
       /\ model_size # NoModelSize
       /\ Max2(image.shape[1], image.shape[2]) < model_size
    THEN [image EXCEPT !.shape = <<model_size, model_size>>]
    ELSE image

\* mutant: an empty view is returned as the crop
crop_frame_if_roi_keepsEmpty(video_frame, box, model_size, resize_to_model) ==
    IF box = None
    THEN [frame |-> video_frame, offset |-> None]
    ELSE [frame |-> VideoFrame(CropView(video_frame.image, box), video_frame.source_id),
          offset |-> <<box.x1, box.y1>>]

crop_frame_if_roi(video_frame, box, model_size, resize_to_model) ==
    IF box = None
    THEN [frame |-> video_frame, offset |-> None]
    ELSE LET cropped_image == CropView(video_frame.image, box)
         IN IF ImageSize(cropped_image) = 0
            THEN [frame |-> video_frame, offset |-> None]
            ELSE [frame |-> VideoFrame(ResizeIfSmaller(cropped_image, model_size,
                                                       resize_to_model),
                                       video_frame.source_id),
                  offset |-> <<box.x1, box.y1>>]

\* xs += x_offset, ys += y_offset on one detection
Shifted(det, crop_offset) ==
    [det EXCEPT !.x = @ + DetScale * crop_offset[1],
                !.y = @ + DetScale * crop_offset[2]]

\* mutant: only x is shifted
transform_predictions_vectorized_xOnly(predictions, crop_offset) ==
    IF crop_offset = None \/ "predictions" \notin DOMAIN predictions
    THEN predictions
    ELSE [predictions EXCEPT !.predictions =
            [i \in DOMAIN @ |-> [@[i] EXCEPT !.x = @ + DetScale * crop_offset[1]]]]

transform_predictions_vectorized(predictions, crop_offset) ==
    IF crop_offset = None \/ "predictions" \notin DOMAIN predictions
    THEN predictions
    ELSE IF predictions.predictions = <<>>
         THEN predictions
         ELSE [predictions EXCEPT !.predictions =
                 [i \in DOMAIN @ |-> Shifted(@[i], crop_offset)]]

\* The crop-image coordinates (units of 1/DetScale pixel) of the full-frame point
\* point = <<X, Y>> (same units): the image shows the rectangle view at shape pixels.
CropCoordinate(image, point) ==
    <<((point[1] - DetScale * image.view.x1) * image.shape[2]) \div width(image.view),
      ((point[2] - DetScale * image.view.y1) * image.shape[1]) \div height(image.view)>>

\* the point lies in the rectangle shown and its crop coordinates are whole units
Representable(image, point) ==
    /\ DetScale * image.view.x1 <= point[1] /\ point[1] <= DetScale * image.view.x2
    /\ DetScale * image.view.y1 <= point[2] /\ point[2] <= DetScale * image.view.y2
    /\ ((point[1] - DetScale * image.view.x1) * image.shape[2]) % width(image.view) = 0
    /\ ((point[2] - DetScale * image.view.y1) * image.shape[1]) % height(image.view) = 0

\* process_frame_fn: the model reports one object, centred where the image shows point
ProcessFrame(image, point) ==
    [predictions |-> <<[x |-> CropCoordinate(image, point)[1],
                        y |-> CropCoordinate(image, point)[2],
                        width |-> DetScale, height |-> DetScale,
                        class |-> "person", confidence |-> DefaultAppearConf]>>,
     time |-> 1]

\* prediction['__crop_metadata__'] (the derived ratios are left out)
CropMetadata(enable_crop, crop_offset, box) ==
    [roi |-> box, enabled |-> enable_crop, crop_offset |-> crop_offset,
     crop_applied |-> crop_offset # None]

\* one frame of adaptive_roi_inference: box is what roi_state.get_roi returns
adaptive_roi_inference(video_frame, box, model_size, resize_to_model, enable_crop, show_statistics, point) ==
    LET used == IF enable_crop THEN box ELSE None
        cropped == crop_frame_if_roi(video_frame, used, model_size, resize_to_model)
        prediction == transform_predictions_vectorized(
                          ProcessFrame(cropped.frame.image, point), cropped.offset)
    IN IF show_statistics
       THEN prediction @@ [crop_metadata |-> CropMetadata(enable_crop, cropped.offset, used)]
       ELSE prediction

\* convert_predictions_to_sv_detections: the xyxy boxes x -+ width / 2,
\* y -+ height / 2 of the predictions, in units of 1/XyScale pixel; none when the
\* key 'predictions' is absent or empty
convert_predictions_to_sv_detections(predictions) ==
    IF "predictions" \notin DOMAIN predictions
    THEN <<>>
    ELSE [i \in DOMAIN predictions.predictions |->
             LET d == predictions.predictions[i]
             IN ROIBox(2 * d.x - d.width, 2 * d.y - d.height,
                       2 * d.x + d.width, 2 * d.y + d.height)]

\* roi_update_sink for one prediction and its frame: d is roi_state's dict
roi_update_sink(prediction, video_frame, d, c) ==
    IF prediction = None \/ video_frame = None
    THEN d
    ELSE update_from_detections(d, c, video_frame.source_id,
                                convert_predictions_to_sv_detections(prediction),
                                video_frame.image.shape)

\* AdaptiveInferenceHandler.enable: self._enabled = True
enable(self) == [self EXCEPT !.enabled = TRUE]

\* transform_predictions_vectorized applied times times, each to the result of the last
RECURSIVE TransformTimes(_, _, _)
TransformTimes(predictions, crop_offset, times) ==
    IF times = 0
    THEN predictions
    ELSE TransformTimes(transform_predictions_vectorized(predictions, crop_offset),
                        crop_offset, times - 1)

(***************************************************************************)
(* NoOpStabilizer: the pass-through baseline.  It has no fields.           *)
(***************************************************************************)
\* mutant: detections below appear_conf are dropped
NoOpStabilizer_process_dropsWeak(detections, source_id) ==
    SelectSeq(detections, LAMBDA det : det.confidence >= DefaultAppearConf)

\* NoOpStabilizer.process
NoOpStabilizer_process(detections, source_id) == detections

\* NoOpStabilizer.get_stats
NoOpStabilizer_get_stats(source_id) == [mode |-> "none"]

(***************************************************************************)
(* Construction of a stabilizer: the factory create_stabilization_strategy *)
(* and the constructor of TemporalHysteresisStabilizer.  A construction    *)
(* either raises or returns an instance; an instance is the record of its  *)
(* fields.  Confidences are percentages and may lie outside 0..100.        *)
(***************************************************************************)
ValueError == [raised |-> "ValueError"]

\* str.lower() on the mode names used here
Lower(mode) ==
    CASE mode = "Temporal" -> "temporal"
      [] mode = "NONE" -> "none"
      [] OTHER -> mode

\* NoOpStabilizer()
NoOpStabilizer == [stabilizer |-> "NoOpStabilizer"]

\* TemporalHysteresisStabilizer.__init__: the four parameters are stored as they come
TemporalHysteresisStabilizer(min_frames, max_gap, appear_conf, persist_conf) ==
    [min_frames |-> min_frames, max_gap |-> max_gap,
     appear_conf |-> appear_conf, persist_conf |-> persist_conf]

IsTemporal(outcome) == "min_frames" \in DOMAIN outcome

create_stabilization_strategy(config) ==
    LET mode == Lower(config.mode)
    IN IF mode \notin {"none", "temporal"} THEN ValueError
       ELSE IF mode = "none" THEN NoOpStabilizer
       ELSE IF config.temporal_min_frames < 1 THEN ValueError
       ELSE IF config.temporal_max_gap < 0 THEN ValueError
       ELSE IF ~(0 <= config.hysteresis_appear_conf /\ config.hysteresis_appear_conf <= 100)
            THEN ValueError
       ELSE IF ~(0 <= config.hysteresis_persist_conf /\ config.hysteresis_persist_conf <= 100)
            THEN ValueError
       ELSE IF config.hysteresis_persist_conf > config.hysteresis_appear_conf
            THEN ValueError
       ELSE TemporalHysteresisStabilizer(config.temporal_min_frames,
                                         config.temporal_max_gap,
                                         config.hysteresis_appear_conf,
                                         config.hysteresis_persist_conf)

(***************************************************************************)
(* Construction of an ROI strategy: the factory                            *)
(* validate_and_create_roi_strategy and the constructors of ROIState and   *)
(* FixedROIState.  Margins and the bounds of a fixed ROI are percentages    *)
(* and may lie outside 0..100; the smoothing is in quarters.               *)
(***************************************************************************)
\* str.lower() on the ROI mode names used here
LowerRoiMode(mode) ==
    CASE mode = "Fixed" -> "fixed"
      [] mode = "ADAPTIVE" -> "adaptive"
      [] OTHER -> mode

\* ROIState.__init__: the parameters are stored as they come
ROIState(margin, smoothing_alpha, min_roi_size, imgsz, min_roi_multiple, max_roi_multiple, resize_to_model) ==
    [margin |-> margin, imgsz |-> imgsz,
     min_roi_multiple |-> min_roi_multiple, max_roi_multiple |-> max_roi_multiple,
     min_roi_size |-> min_roi_size, smoothing_alpha |-> smoothing_alpha,
     resize_to_model |-> resize_to_model]

\* 0.0 <= lo < hi <= 1.0
NormalizedRange(lo, hi) == 0 <= lo /\ lo < hi /\ hi <= 100

\* FixedROIState.__init__
FixedROIState(x_min, y_min, x_max, y_max, show_overlay, resize_to_model) ==
    IF ~NormalizedRange(x_min, x_max) THEN ValueError
    ELSE IF ~NormalizedRange(y_min, y_max) THEN ValueError
    ELSE [resize_to_model |-> resize_to_model, x_min |-> x_min, y_min |-> y_min,
          x_max |-> x_max, y_max |-> y_max, show_overlay |-> show_overlay]

IsROIState(outcome) == "min_roi_multiple" \in DOMAIN outcome
IsFixedROIState(outcome) == "x_min" \in DOMAIN outcome

validate_and_create_roi_strategy(mode, config) ==
    LET m == LowerRoiMode(mode)
    IN IF m \notin {"none", "adaptive", "fixed"} THEN ValueError
       ELSE IF m = "none" THEN None
       ELSE IF m = "adaptive"
       THEN IF ~(0 <= config.adaptive_margin /\ config.adaptive_margin <= 100)
            THEN ValueError
            ELSE IF ~(0 <= config.adaptive_smoothing /\ config.adaptive_smoothing <= AlphaUnit)
            THEN ValueError
            ELSE IF config.adaptive_min_roi_multiple < 1 THEN ValueError
            ELSE IF config.adaptive_max_roi_multiple < config.adaptive_min_roi_multiple
            THEN ValueError
            ELSE ROIState(config.adaptive_margin, config.adaptive_smoothing,
                          DefaultMinRoiSize, config.imgsz,
                          config.adaptive_min_roi_multiple,
                          config.adaptive_max_roi_multiple,
                          config.adaptive_resize_to_model)
       ELSE IF ~NormalizedRange(config.fixed_x_min, config.fixed_x_max) THEN ValueError
       ELSE IF ~NormalizedRange(config.fixed_y_min, config.fixed_y_max) THEN ValueError
       ELSE FixedROIState(config.fixed_x_min, config.fixed_y_min,
                          config.fixed_x_max, config.fixed_y_max,
                          config.fixed_show_overlay, config.fixed_resize_to_model)

(***************************************************************************)
(* Part 6: the controller (app/controller.py) and its control plane        *)
(* (control/plane.py, control/registry.py).  The pipeline of the inference *)
(* library is known by how often terminate() has returned normally; each   *)
(* call of one of its methods either returns or raises, which is an input  *)
(* of the statement that makes the call.  The handlers run on different    *)
(* threads and nothing orders the statements of one with those of another, *)
(* so a handler is given statement by statement: applied to the statement  *)
(* the thread stands at and to the fields of the controller, it yields the *)
(* fields as that statement leaves them, the pipeline methods it called,   *)
(* the exception that escapes the handler ("" if none) and the statement   *)
(* the thread stands at next, "return" when the handler is left.  The      *)
(* statements are "if" (the test of is_running), the call of the pipeline  *)
(* method under its name, "clear" (is_running = False) and "set"           *)
(* (shutdown_event.set()).                                                 *)
(***************************************************************************)
RoiModeNames == {"none", "adaptive", "fixed"}
StabilizationModeNames == {"none", "temporal"}
\* the configs the controller is built with: every ROI mode without stabilization,
\* every stabilization mode without ROI
ControllerConfigs ==
    {config \in [ROI_MODE : RoiModeNames, STABILIZATION_MODE : StabilizationModeNames] :
        config.ROI_MODE = "none" \/ config.STABILIZATION_MODE = "none"}

\* InferencePipeline.init / init_with_custom_logic: a pipeline nobody has terminated
NewPipeline == [terminated |-> 0]

\* pipeline.terminate() returning normally
Terminated(p) == [terminated |-> p.terminated + 1]

\* self.inference_handler after setup(): the attribute does not exist in mode none
InferenceHandlerOf(config) ==
    IF config.ROI_MODE = "adaptive"
    THEN [enabled |-> TRUE, handler_class |-> "AdaptiveInferenceHandler"]
    ELSE IF config.ROI_MODE = "fixed"
         THEN [enabled |-> TRUE, handler_class |-> "FixedROIInferenceHandler"]
         ELSE None

\* the attributes setup() sets on the control plane
CallbacksOf(config) ==
    {"on_stop", "on_pause", "on_resume", "on_metrics"}
        \cup (IF config.ROI_MODE = "adaptive" THEN {"on_toggle_crop"} ELSE {})
        \cup (IF config.STABILIZATION_MODE # "none" THEN {"on_stabilization_stats"} ELSE {})

\* CommandRegistry.__init__: no command is registered
CommandRegistry == {}

\* the properties of AdaptiveInferenceHandler an assignment can set: enabled and
\* supports_toggle are declared with a getter only
SettableProperties == {}

\* what a statement of a handler yields
Left(self, called, raised, at) ==
    [self |-> self, raised |-> raised, called |-> called, at |-> at]

\* AdaptiveInferenceHandler.disable, statement by statement: self._enabled = False
\* ("set"), then self.roi_state.reset() ("reset"); d is roi_state's dict
disable(at, self, d) ==
    CASE at = "set" ->
            [self |-> [self EXCEPT !.enabled = FALSE], at |-> "reset", roi_state |-> d]
      [] at = "reset" ->
            [self |-> self, at |-> "return", roi_state |-> reset(d, NoSource)]

\* mutant: shutdown_event is set in the try block, after terminate() has returned
_handle_stop_setInsideTry(at, self, terminate_raises) ==
    CASE at = "if" ->
            Left(self, <<>>, "", IF self.is_running THEN "terminate" ELSE "set")
      [] at = "terminate" ->
            IF terminate_raises THEN Left(self, <<"terminate">>, "", "return")
            ELSE Left([self EXCEPT !.pipeline = Terminated(@)], <<"terminate">>, "", "clear")
      [] at = "clear" -> Left([self EXCEPT !.is_running = FALSE], <<>>, "", "set")
      [] at = "set" -> Left([self EXCEPT !.shutdown_event = TRUE], <<>>, "", "return")

_handle_stop(at, self, terminate_raises) ==
    CASE at = "if" ->
            Left(self, <<>>, "", IF self.is_running THEN "terminate" ELSE "set")
      [] at = "terminate" ->
            IF terminate_raises THEN Left(self, <<"terminate">>, "", "set")
            ELSE Left([self EXCEPT !.pipeline = Terminated(@)], <<"terminate">>, "", "clear")
      [] at = "clear" -> Left([self EXCEPT !.is_running = FALSE], <<>>, "", "set")
      [] at = "set" -> Left([self EXCEPT !.shutdown_event = TRUE], <<>>, "", "return")

\* an exception of pause_stream() is logged
_handle_pause(at, self, pause_raises) ==
    CASE at = "if" ->
            Left(self, <<>>, "", IF self.is_running THEN "pause_stream" ELSE "return")
      [] at = "pause_stream" -> Left(self, <<"pause_stream">>, "", "return")

_handle_resume(at, self, resume_raises) ==
    CASE at = "if" ->
            Left(self, <<>>, "", IF self.is_running THEN "resume_stream" ELSE "return")
      [] at = "resume_stream" -> Left(self, <<"resume_stream">>, "", "return")

\* the tests of ROI_MODE and of the attribute, and the assignment to enabled: one
\* statement, no other thread writes what it reads
_handle_toggle_crop(at, self, config) ==
    IF config.ROI_MODE # "adaptive" \/ self.handler = None
    THEN Left(self, <<>>, "", "return")
    ELSE LET new_state == ~self.handler.enabled
         IN IF "enabled" \in SettableProperties
            THEN Left([self EXCEPT !.handler.enabled = new_state],
                      IF new_state THEN <<>> ELSE <<"reset">>, "", "return")
            ELSE Left(self, <<>>, "AttributeError", "return")

\* its first statement is "set"
_signal_handler(at, self, terminate_raises) ==
    CASE at = "set" -> Left([self EXCEPT !.shutdown_event = TRUE], <<>>, "", "if")
      [] at = "if" ->
            Left(self, <<>>, "",
                 IF self.pipeline # None /\ self.is_running THEN "terminate" ELSE "return")
      [] at = "terminate" ->
            IF terminate_raises THEN Left(self, <<"terminate">>, "", "return")
            ELSE Left([self EXCEPT !.pipeline = Terminated(@)], <<"terminate">>, "", "clear")
      [] at = "clear" -> Left([self EXCEPT !.is_running = FALSE], <<>>, "", "return")

\* cleanup(): after "clear" it waits for the pipeline's threads ("join"), then it
\* disconnects the planes and leaves through os._exit(0) ("disconnect"); an
\* exception of join() is logged
cleanup(at, self, terminate_raises) ==
    CASE at = "if" ->
            Left(self, <<>>, "",
                 IF self.pipeline # None /\ self.is_running THEN "terminate"
                 ELSE "disconnect")
      [] at = "terminate" ->
            IF terminate_raises THEN Left(self, <<"terminate">>, "", "disconnect")
            ELSE Left([self EXCEPT !.pipeline = Terminated(@)], <<"terminate">>, "", "clear")
      [] at = "clear" -> Left([self EXCEPT !.is_running = FALSE], <<>>, "", "join")
      [] at = "join" -> Left(self, <<"join">>, "", "disconnect")
      [] at = "disconnect" -> Left(self, <<>>, "", "return")

\* str.lower() of the command names sent here
LowerCommand(command) ==
    CASE command = "STOP" -> "stop"
      [] command = "Pause" -> "pause"
      [] OTHER -> command

\* the handler of the controller a command name is registered with
HandlerOf(command) ==
    CASE command = "stop" -> "_handle_stop"
      [] command = "pause" -> "_handle_pause"
      [] command = "resume" -> "_handle_resume"
      [] command = "toggle_crop" -> "_handle_toggle_crop"

\* the handler setup() has stored in an attribute of the control plane
CallbackOf(name) ==
    CASE name = "on_stop" -> "_handle_stop"
      [] name = "on_pause" -> "_handle_pause"
      [] name = "on_resume" -> "_handle_resume"
      [] name = "on_toggle_crop" -> "_handle_toggle_crop"

\* CommandRegistry.register: the command is added, or its handler replaced
register(commands, command) == commands \cup {command}

\* CommandRegistry.execute: the handler to call, or the exception raised
execute(commands, command) ==
    IF command \notin commands
    THEN [raised |-> "CommandNotAvailableError", method |-> ""]
    ELSE [raised |-> "", method |-> HandlerOf(command)]

\* MQTTControlPlane._on_message for a JSON payload {"command": command}: whatever
\* the registry or the handler raises is logged and goes no further
_on_message(commands, command) ==
    LET done == execute(commands, LowerCommand(command))
    IN [method |-> done.method, executed |-> done.raised = ""]

\* one statement of the handler method
HandlerStep(method, at, self, config, raises) ==
    CASE method = "_handle_stop" -> _handle_stop(at, self, raises)
      [] method = "_handle_pause" -> _handle_pause(at, self, raises)
      [] method = "_handle_resume" -> _handle_resume(at, self, raises)
      [] method = "_handle_toggle_crop" -> _handle_toggle_crop(at, self, config)

(***************************************************************************)
(* The stabilizer as a state machine.                                      *)
(***************************************************************************)
StabInit(c) ==
    /\ cfg = c
    /\ tracks = [s \in Sources |-> <<>>]
    /\ frame = 0
    /\ absentRun = 0
    /\ lastSrc = DefaultSource
    /\ lastDets = <<>>
    /\ prevTracks = <<>>
    /\ preEvict = <<>>
    /\ matchLog = <<>>
    /\ lastOut = <<>>

InitWith(c) ==
    /\ StabInit(c)
    /\ strategies = DefaultStrategies(DefaultIoUThreshold)
    /\ probe = <<>>
    /\ RoiIdle
    /\ ReplayIdle
    /\ AuxIdle

Init == \E c \in Configs : InitWith(c)

\* what a process() call on source src leaves behind
Effects(src, dets, r) ==
    /\ tracks' = [tracks EXCEPT ![src] = r.tracks]
    /\ frame' = frame + 1
    /\ absentRun' = IF dets = <<>> THEN absentRun + 1 ELSE 0
    /\ lastSrc' = src
    /\ lastDets' = dets
    /\ prevTracks' = tracks[src]
    /\ preEvict' = r.marked
    /\ matchLog' = r.log
    /\ lastOut' = r.out
    /\ UNCHANGED cfg

Record(src, dets, r) ==
    /\ Effects(src, dets, r)
    /\ UNCHANGED <<matcherVars, roiVars, replayVars, auxVars>>

Process(src, dets) ==
    /\ frame < MaxFrames
    /\ Record(src, dets, process(tracks[src], dets, cfg, Still(dets)))

\* TemporalHysteresisStabilizer.reset(source_id): every source's tracks when
\* source_id is None, else the tracks of that source if it has any.  A source
\* without an entry in self._tracks and a source with an empty dict are the same
\* to process(), which reads self._tracks[source_id] of a defaultdict.
TemporalHysteresisStabilizer_reset(ts, source_id) ==
    IF source_id = NoSource THEN [s \in DOMAIN ts |-> <<>>]
    ELSE IF source_id \in DOMAIN ts THEN [ts EXCEPT ![source_id] = <<>>]
    ELSE ts

\* reset() between two frames; what is remembered of the last process() call is
\* forgotten with the tracks that call left
ResetTracks(source_id) ==
    /\ tracks' = TemporalHysteresisStabilizer_reset(tracks, source_id)
    /\ lastDets' = <<>>
    /\ prevTracks' = <<>>
    /\ preEvict' = <<>>
    /\ matchLog' = <<>>
    /\ lastOut' = <<>>
    /\ UNCHANGED <<cfg, frame, absentRun, lastSrc>>
    /\ UNCHANGED <<matcherVars, roiVars, replayVars, auxVars>>

Next ==
    \/ \E src \in Sources, dets \in FrameInputs : Process(src, dets)
    \/ \E source_id \in Sources \cup {NoSource} : ResetTracks(source_id)

Spec == Init /\ [][Next]_vars


(***************************************************************************)
(* One object, detected with confidence >= appear_conf in every frame.     *)
(***************************************************************************)
Present(conf, b) == Process(DefaultSource, <<Det("person", conf, b)>>)

Absent == Process(DefaultSource, <<>>)

NextPresent == \E conf \in HighConfs, b \in Boxes : Present(conf, b)

SpecPresent == Init /\ [][NextPresent]_vars

(***************************************************************************)
(* One object that is detected with confidence >= appear_conf or is not    *)
(* detected at all.                                                        *)
(***************************************************************************)
NextSingle ==
    \/ \E conf \in HighConfs, b \in Boxes : Present(conf, b)
    \/ Absent

SpecSingle == Init /\ [][NextSingle]_vars

(***************************************************************************)
(* One object, detected with confidence >= appear_conf in every frame, for *)
(* as long as the pipeline runs: the pipeline calls process() for every    *)
(* frame it reads, so the call is weakly fair.  The count of frames stops  *)
(* at MaxRun, and no frame is processed once a track has been seen in      *)
(* MaxRun consecutive frames.                                              *)
(***************************************************************************)
MaxRun == 4

PresentLive(conf, b) ==
    /\ \A t \in AllTracks(tracks[DefaultSource]) : t.consecutive_frames < MaxRun
    /\ LET dets == <<Det("person", conf, b)>>
           r == process(tracks[DefaultSource], dets, cfg, Still(dets))
       IN /\ tracks' = [tracks EXCEPT ![DefaultSource] = r.tracks]
          /\ frame' = IF frame < MaxRun THEN frame + 1 ELSE frame
          /\ lastDets' = dets
          /\ prevTracks' = tracks[DefaultSource]
          /\ preEvict' = r.marked
          /\ matchLog' = r.log
          /\ lastOut' = r.out
    /\ UNCHANGED <<cfg, absentRun, lastSrc, matcherVars, roiVars, replayVars, auxVars>>

NextPresentLive == \E conf \in HighConfs, b \in Boxes : PresentLive(conf, b)

SpecPresentLive == Init /\ [][NextPresentLive]_vars /\ WF_vars(NextPresentLive)

(***************************************************************************)
(* Two objects of one class, spatially disjoint, both detected with        *)
(* confidence >= appear_conf in every frame, in either order.  The left    *)
(* one may stay, move a little (BoxLNear overlaps BoxL) or jump (BoxLFar   *)
(* overlaps neither); the right one may stay or move a little.  No left    *)
(* box overlaps a right box.                                               *)
(***************************************************************************)
BoxLNear == [x |-> 28, y |-> 50, width |-> 15, height |-> 20]
BoxLFar == [x |-> 50, y |-> 50, width |-> 15, height |-> 20]
BoxRNear == [x |-> 72, y |-> 50, width |-> 15, height |-> 20]

LeftDets == {Det("person", conf, b) : conf \in HighConfs, b \in {BoxL, BoxLNear, BoxLFar}}
RightDets == {Det("person", 60, b) : b \in {BoxR, BoxRNear}}

NextPair ==
    \E a \in LeftDets, b \in RightDets :
        \/ Process(DefaultSource, <<a, b>>)
        \/ Process(DefaultSource, <<b, a>>)

SpecPair == Init /\ [][NextPair]_vars

(***************************************************************************)
(* The matcher on its own: a HierarchicalMatcher built with any IoU        *)
(* threshold, either strategy switched on or off, asked for the best match *)
(* of a detection among tracks of two classes, some of them matched        *)
(* already.  Tracks and detections of different classes may have the same  *)
(* box.                                                                    *)
(***************************************************************************)
MaxProbeTracks == 2

\* thresholds below, at and above the default; none of them is a score that two of
\* the boxes used here reach exactly, where the floats of the code would decide
HighIoUThreshold == 90
IoUThresholds == {0, DefaultIoUThreshold, HighIoUThreshold}

StrategyLists ==
    {<<[IoUStrategy(thr) EXCEPT !.enabled = e1],
       [ClassOnlyStrategy EXCEPT !.enabled = e2]>> :
        thr \in IoUThresholds, e1 \in BOOLEAN, e2 \in BOOLEAN}

ProbeClasses == {"person", "car"}
ProbeDets == {Det(c, 60, b) : c \in ProbeClasses, b \in {BoxL, BoxR}}
ProbeTracks == {NewTrack(Det(c, 60, b), 0) : c \in ProbeClasses, b \in {BoxL, BoxLNear, BoxR}}
ProbeTrackLists == SeqsUpTo(ProbeTracks, MaxProbeTracks)

\* TemporalHysteresisStabilizer.__init__ defaults
DefaultMinFrames == 3
DefaultMaxGap == 2

DefaultCfg ==
    [min_frames |-> DefaultMinFrames, max_gap |-> DefaultMaxGap,
     appear_conf |-> DefaultAppearConf, persist_conf |-> DefaultPersistConf]

InitMatch ==
    /\ StabInit(DefaultCfg)
    /\ strategies \in StrategyLists
    /\ probe = <<>>
    /\ RoiIdle
    /\ ReplayIdle
    /\ AuxIdle

FindBestMatch(detection, trackList, matched_indices) ==
    \* one find_best_match call is explored on each matcher
    /\ probe = <<>>
    /\ probe' = <<[detection |-> detection, trackList |-> trackList,
                   matched_indices |-> matched_indices,
                   result |-> find_best_match(strategies, detection, trackList,
                                              matched_indices)]>>
    /\ UNCHANGED <<stabVars, strategies, roiVars, replayVars, auxVars>>

NextMatch ==
    \E detection \in ProbeDets, trackList \in ProbeTrackLists :
        \E matched_indices \in SUBSET (DOMAIN trackList) :
            FindBestMatch(detection, trackList, matched_indices)

SpecMatch == InitMatch /\ [][NextMatch]_vars

(***************************************************************************)
(* Replay: the stabilizer processes frames while the clock runs, each      *)
(* frame and what the call returned is recorded on a tape, and a second    *)
(* stabilizer of the same configuration, started empty, processes the      *)
(* frames of the tape later, at its own pace.                              *)
(***************************************************************************)
MaxClock == 2
MaxReplayFrames == 3

ReplayDets == {Det("person", 60, BoxL), Det("person", 40, BoxR)}
ReplayInputs == SeqsUpTo(ReplayDets, MaxDets)

Tick ==
    /\ clock < MaxClock
    /\ clock' = clock + 1
    /\ UNCHANGED <<stabVars, matcherVars, roiVars, tape, replica, replicaOut, replayed,
                   auxVars>>

\* what the clock can return to the readings of one call: each reading is at or
\* after the one before it, the first at or after the clock when the call begins
Readings(dets) ==
    {readings \in [DOMAIN dets -> clock..MaxClock] :
        \A i, j \in DOMAIN dets : i <= j => readings[i] <= readings[j]}

\* the clock after a call that made these readings
ClockAfter(readings) == IF readings = <<>> THEN clock ELSE readings[Len(readings)]

ProcessLive(dets) ==
    /\ frame < MaxReplayFrames
    /\ \E readings \in Readings(dets) :
          LET r == process(tracks[DefaultSource], dets, cfg, readings)
          IN /\ Effects(DefaultSource, dets, r)
             /\ tape' = Append(tape, [tracks |-> r.tracks, dets |-> dets, out |-> r.out])
             /\ clock' = ClockAfter(readings)
    /\ UNCHANGED <<matcherVars, roiVars, replica, replicaOut, replayed, auxVars>>

ProcessReplay ==
    /\ replayed < Len(tape)
    /\ \E readings \in Readings(tape[replayed + 1].dets) :
          LET r == process(replica, tape[replayed + 1].dets, cfg, readings)
          IN /\ replica' = r.tracks
             /\ replicaOut' = r.out
             /\ clock' = ClockAfter(readings)
    /\ replayed' = replayed + 1
    /\ UNCHANGED <<stabVars, matcherVars, roiVars, tape, auxVars>>

NextReplay ==
    \/ Tick
    \/ \E dets \in ReplayInputs : ProcessLive(dets)
    \/ ProcessReplay

SpecReplay == Init /\ [][NextReplay]_vars

(***************************************************************************)
(* The example of TemporalHysteresisStabilizer's docstring: min_frames 3,  *)
(* max_gap 2, appear_conf 0.5, persist_conf 0.3, and one person seen with  *)
(* confidence 0.45, 0.52, 0.48, 0.51, 0.35 and then not at all for two     *)
(* frames.  At each frame the stabilizer is given the frame of the example *)
(* or departs from it, with no detection or with the person at 0.60; the   *)
(* tape records each frame, what the call returned and the tracks it left. *)
(***************************************************************************)
MaxExampleFrames == 7

ExampleCfg == [min_frames |-> 3, max_gap |-> 2, appear_conf |-> 50, persist_conf |-> 30]

ExampleFrames ==
    <<  <<Det("person", 45, BoxL)>>, <<Det("person", 52, BoxL)>>,
        <<Det("person", 48, BoxL)>>, <<Det("person", 51, BoxL)>>,
        <<Det("person", 35, BoxL)>>, <<>>, <<>>  >>

ExampleInputs(k) ==
    {<<>>, <<Det("person", 60, BoxL)>>}
        \cup (IF k \in DOMAIN ExampleFrames THEN {ExampleFrames[k]} ELSE {})

ProcessExample(dets) ==
    /\ frame < MaxExampleFrames
    /\ LET r == process(tracks[DefaultSource], dets, cfg, Still(dets))
       IN /\ Effects(DefaultSource, dets, r)
          /\ tape' = Append(tape, [tracks |-> r.tracks, dets |-> dets, out |-> r.out])
    /\ UNCHANGED <<matcherVars, roiVars, clock, replica, replicaOut, replayed, auxVars>>

NextExample == \E dets \in ExampleInputs(frame + 1) : ProcessExample(dets)

SpecExample == InitWith(ExampleCfg) /\ [][NextExample]_vars

(***************************************************************************)
(* The box algebra on its own: one operation of ROIBox applied to boxes    *)
(* with corners on the pixel grid 0..MaxCoord, in frames of three shapes   *)
(* (wide, square, tall), some smaller than the largest square asked for.   *)
(***************************************************************************)
MaxCoord == 8
MaxSmoothCoord == 6
MaxMultiple == 3

GeoFrames == {<<6, 8>>, <<8, 8>>, <<8, 6>>}
GeoImgsz == {2, 3}
Margins == {0, 10, 20, 30, 50}
Alphas == 0..AlphaUnit

\* boxes with x1 <= x2 and y1 <= y2
GeoBoxes ==
    {ROIBox(x1, y1, x2, y2) : x1 \in 0..MaxCoord, y1 \in 0..MaxCoord,
                              x2 \in 0..MaxCoord, y2 \in 0..MaxCoord}
        \ {b \in [x1 : 0..MaxCoord, y1 : 0..MaxCoord,
                   x2 : 0..MaxCoord, y2 : 0..MaxCoord] : b.x2 < b.x1 \/ b.y2 < b.y1}

\* squares of side >= 1
SmoothBoxes ==
    {ROIBox(x1, y1, x1 + side, y1 + side) :
        x1 \in 0..MaxSmoothCoord, y1 \in 0..MaxSmoothCoord, side \in 1..MaxSmoothCoord}
        \ {b \in [x1 : 0..MaxSmoothCoord, y1 : 0..MaxSmoothCoord,
                   x2 : 0..(2 * MaxSmoothCoord), y2 : 0..(2 * MaxSmoothCoord)] :
              b.x2 > MaxSmoothCoord \/ b.y2 > MaxSmoothCoord}

InFrame(b, frame_shape) ==
    /\ 0 <= b.x1 /\ b.x1 <= b.x2 /\ b.x2 <= frame_shape[2]
    /\ 0 <= b.y1 /\ b.y1 <= b.y2 /\ b.y2 <= frame_shape[1]

\* one operation is explored from the initial state
GeoReady == geo = <<>>

GeoCall(call) ==
    /\ GeoReady
    /\ geo' = <<call>>
    /\ UNCHANGED <<stabVars, matcherVars, roiCfg, roi, roiCall, replayVars, auxVars>>

MakeSquareMultiple(b, imgsz, min_multiple, max_multiple, frame_shape) ==
    GeoCall([frame_shape |-> frame_shape, self |-> b,
             imgsz |-> imgsz,
             min_multiple |-> min_multiple, max_multiple |-> max_multiple,
             result |-> make_square_multiple(b, imgsz, min_multiple, max_multiple,
                                             frame_shape),
             op |-> "make_square_multiple"])

Expand(b, margin, frame_shape, preserve_square) ==
    GeoCall([margin |-> margin, frame_shape |-> frame_shape,
             preserve_square |-> preserve_square, self |-> b,
             result |-> expand(b, margin, frame_shape, preserve_square),
             op |-> "expand"])

SmoothWith(self, other, alpha) ==
    GeoCall([self |-> self, other |-> other, alpha |-> alpha,
             result |-> smooth_with(self, other, alpha), op |-> "smooth_with"])

NextGeom ==
    \/ GeoReady /\ \E b \in GeoBoxes, imgsz \in GeoImgsz, frame_shape \in GeoFrames :
          \E min_multiple \in 1..MaxMultiple :
              \E max_multiple \in min_multiple..MaxMultiple :
                  MakeSquareMultiple(b, imgsz, min_multiple, max_multiple, frame_shape)
    \/ GeoReady /\ \E b \in GeoBoxes, margin \in Margins, frame_shape \in GeoFrames :
          \E preserve_square \in BOOLEAN :
              Expand(b, margin, frame_shape, preserve_square)
    \/ GeoReady /\ \E self \in SmoothBoxes, other \in SmoothBoxes, alpha \in Alphas :
          SmoothWith(self, other, alpha)

SpecGeom == InitWith(DefaultCfg) /\ [][NextGeom]_vars

(***************************************************************************)
(* ROIState as a state machine: one ROIState of some configuration, on     *)
(* which update_from_detections and reset are called in any order for two  *)
(* sources.  Squares of 2, 4 and 6 pixels are asked for in frames of 8x8   *)
(* and 6x8 (height x width) pixels.  roiCall keeps the last call, the dict *)
(* it started from, the frame shapes passed so far and the number of calls *)
(* made, of which MaxRoiCalls are explored.                                *)
(***************************************************************************)
MaxRoiMultiple == 3
MaxRoiCalls == 3

RoiSources == {0, 1}
RoiFrames == {<<8, 8>>, <<6, 8>>}

RoiConfigs ==
    [margin : {0, 25}, smoothing_alpha : {2}, min_roi_size : {0, 25}, imgsz : {2},
     min_roi_multiple : {1}, max_roi_multiple : {MaxRoiMultiple}]

\* detections in quarter pixels: a small one in the corner, one in the middle and
\* one at the far edges
RoiDetBoxes == {ROIBox(0, 0, 6, 7), ROIBox(10, 10, 18, 17), ROIBox(18, 14, 32, 24)}

RoiInputs == SeqsUpTo(RoiDetBoxes, MaxDets)

ShapesSoFar == IF roiCall = <<>> THEN {} ELSE roiCall[1].shapes

CallsSoFar == IF roiCall = <<>> THEN 0 ELSE roiCall[1].calls

RoiReady == CallsSoFar < MaxRoiCalls

InitRoi ==
    /\ StabInit(DefaultCfg)
    /\ strategies = DefaultStrategies(DefaultIoUThreshold)
    /\ probe = <<>>
    /\ ReplayIdle
    /\ AuxIdle
    /\ geo = <<>>
    /\ roiCfg \in RoiConfigs
    /\ roi = EmptyRoiDict
    /\ roiCall = <<>>

UpdateFromDetections(source_id, detections, frame_shape) ==
    /\ RoiReady
    /\ roi' = update_from_detections(roi, roiCfg, source_id, detections, frame_shape)
    /\ roiCall' = <<[before |-> roi, frame_shape |-> frame_shape,
                     source_id |-> source_id, detections |-> detections,
                     op |-> "update_from_detections",
                     shapes |-> ShapesSoFar \cup {frame_shape},
                     calls |-> CallsSoFar + 1]>>
    /\ UNCHANGED <<stabVars, matcherVars, replayVars, geo, roiCfg, auxVars>>

Reset(source_id) ==
    /\ RoiReady
    /\ roi' = reset(roi, source_id)
    /\ roiCall' = <<[before |-> roi, source_id |-> source_id, op |-> "reset",
                     shapes |-> ShapesSoFar, calls |-> CallsSoFar + 1]>>
    /\ UNCHANGED <<stabVars, matcherVars, replayVars, geo, roiCfg, auxVars>>

NextRoi ==
    \/ RoiReady /\ \E source_id \in RoiSources, detections \in RoiInputs,
                       frame_shape \in RoiFrames :
          UpdateFromDetections(source_id, detections, frame_shape)
    \/ RoiReady /\ \E source_id \in RoiSources \cup {NoSource} : Reset(source_id)

SpecRoi == InitRoi /\ [][NextRoi]_vars

(***************************************************************************)
(* The crop and transform functions on their own: one call from the        *)
(* initial state.  Detections are reported in the crop at half pixels;     *)
(* offsets are those of boxes with corners from -1 to 2.                   *)
(***************************************************************************)
MaxApplications == 2
MaxOffset == 2

PipeBoxes ==
    {[x |-> 3, y |-> 4, width |-> 2, height |-> 2],
     [x |-> 0, y |-> 7, width |-> 4, height |-> 6]}

PipeDets ==
    {Det("person", 60, b) : b \in PipeBoxes} \cup {Det("car", 40, b) : b \in PipeBoxes}

\* the dict the model returns, with and without the key 'predictions'
PipePredictions ==
    {[predictions |-> dets, time |-> 1] : dets \in SeqsUpTo(PipeDets, MaxDets)}
        \cup {[time |-> 1]}

CropOffsets == {None} \cup ((-1..MaxOffset) \X (-1..MaxOffset))

FnReady == fnCall = <<>>

FnCall(c) ==
    /\ FnReady
    /\ fnCall' = <<c>>
    /\ UNCHANGED <<stabVars, matcherVars, roiVars, replayVars, built, ctlVars>>

TransformPredictionsVectorized(predictions, crop_offset, times) ==
    FnCall([crop_offset |-> crop_offset, predictions |-> predictions, times |-> times,
            result |-> TransformTimes(predictions, crop_offset, times),
            op |-> "transform_predictions_vectorized"])

NextTransform ==
    FnReady /\ \E predictions \in PipePredictions, crop_offset \in CropOffsets :
        \E times \in 1..MaxApplications :
            TransformPredictionsVectorized(predictions, crop_offset, times)

SpecTransform == InitWith(DefaultCfg) /\ [][NextTransform]_vars

(***************************************************************************)
(* The specification of crop_frame_if_roi: one call on a frame of at least *)
(* one pixel with no box or a box whose corners lie inside, on the border  *)
(* of, or outside the frame (zero-area boxes included), with and without   *)
(* a model size and with either resize_to_model setting.                   *)
(***************************************************************************)
MaxCropCoord == 5
MaxOutside == 2
MaxModelSize == 4

CropFrames == {<<1, 1>>, <<2, 3>>, <<4, 4>>}

CropBoxes ==
    {ROIBox(x1, y1, x2, y2) : x1 \in -MaxOutside..MaxCropCoord, y1 \in -MaxOutside..MaxCropCoord,
                              x2 \in -MaxOutside..MaxCropCoord, y2 \in -MaxOutside..MaxCropCoord}

CropRois == {None} \cup {b \in CropBoxes : b.x1 <= b.x2 /\ b.y1 <= b.y2}

ModelSizes == {NoModelSize} \cup {n \in 2..MaxModelSize : n % 2 = 0}

CropFrameIfRoi(frame_shape, box, model_size, resize_to_model) ==
    LET video_frame == VideoFrame(FullImage(frame_shape), DefaultSource)
    IN FnCall([roi |-> box, model_size |-> model_size,
               resize_to_model |-> resize_to_model, video_frame |-> video_frame,
               result |-> crop_frame_if_roi(video_frame, box, model_size, resize_to_model),
               op |-> "crop_frame_if_roi"])

NextCrop ==
    FnReady /\ \E frame_shape \in CropFrames, box \in CropRois :
                  \E model_size \in ModelSizes, resize_to_model \in BOOLEAN :
                      CropFrameIfRoi(frame_shape, box, model_size, resize_to_model)

SpecCrop == InitWith(DefaultCfg) /\ [][NextCrop]_vars

(***************************************************************************)
(* The specification of adaptive_roi_inference: one frame, the box the ROI *)
(* state returns, the state's model size and resize_to_model setting, and  *)
(* a model that reports an object at a point of the frame it is shown.     *)
(***************************************************************************)
MaxInferCoord == 4

InferFrames == {<<4, 4>>, <<2, 3>>}

InferRois == {None} \cup {b \in CropBoxes : /\ b.x1 <= b.x2 /\ b.y1 <= b.y2
                                           /\ b.x1 >= 0 /\ b.y1 >= 0
                                           /\ b.x2 <= MaxInferCoord /\ b.y2 <= MaxInferCoord}

InferPoints(frame_shape) ==
    {<<DetScale * X, DetScale * Y>> : X \in 0..frame_shape[2], Y \in 0..frame_shape[1]}

\* the image the model is shown
FrameToInfer(c) ==
    crop_frame_if_roi(c.video_frame, IF c.enable_crop THEN c.roi ELSE None,
                      c.model_size, c.resize_to_model).frame.image

AdaptiveRoiInference(frame_shape, box, model_size, resize_to_model, enable_crop, show_statistics, point) ==
    LET video_frame == VideoFrame(FullImage(frame_shape), DefaultSource)
    IN FnCall([roi |-> box, model_size |-> model_size,
               resize_to_model |-> resize_to_model, video_frame |-> video_frame,
               point |-> point, enable_crop |-> enable_crop,
               show_statistics |-> show_statistics,
               result |-> adaptive_roi_inference(video_frame, box, model_size,
                                                 resize_to_model, enable_crop,
                                                 show_statistics, point),
               op |-> "adaptive_roi_inference"])

NextInfer ==
    FnReady /\ \E frame_shape \in InferFrames, box \in InferRois :
                  \E model_size \in ModelSizes, resize_to_model \in BOOLEAN :
                      \E enable_crop \in BOOLEAN, show_statistics \in BOOLEAN :
                          \E point \in InferPoints(frame_shape) :
                              /\ Representable(
                                     crop_frame_if_roi(
                                         VideoFrame(FullImage(frame_shape), DefaultSource),
                                         IF enable_crop THEN box ELSE None,
                                         model_size, resize_to_model).frame.image, point)
                              /\ AdaptiveRoiInference(frame_shape, box, model_size,
                                                      resize_to_model, enable_crop,
                                                      show_statistics, point)

SpecInfer == InitWith(DefaultCfg) /\ [][NextInfer]_vars

(***************************************************************************)
(* The specification of calculate_iou: one call on two boxes given by      *)
(* centre and size, sizes of zero included.                                *)
(***************************************************************************)
MaxIoUCoord == 3
MaxIoUSize == 2

IoUBoxes ==
    {[x |-> x, y |-> y, width |-> w, height |-> h] :
        x \in 0..MaxIoUCoord, y \in 0..MaxIoUCoord, w \in 0..MaxIoUSize, h \in 0..MaxIoUSize}

CalculateIou(bbox1, bbox2) ==
    FnCall([bbox1 |-> bbox1, bbox2 |-> bbox2, result |-> calculate_iou(bbox1, bbox2),
            op |-> "calculate_iou"])

NextIoU == FnReady /\ \E bbox1 \in IoUBoxes, bbox2 \in IoUBoxes : CalculateIou(bbox1, bbox2)

SpecIoU == InitWith(DefaultCfg) /\ [][NextIoU]_vars

(***************************************************************************)
(* The specification of NoOpStabilizer: process, reset and get_stats       *)
(* called in any order on any source; fnCall keeps the calls made so far.  *)
(***************************************************************************)
MaxNoOpCalls == 2

NoOpSources == {0, 1}
NoOpInputs == SeqsUpTo(ReplayDets, MaxDets)

NoOpReady == Len(fnCall) < MaxNoOpCalls

NoOpCall(c) ==
    /\ NoOpReady
    /\ fnCall' = Append(fnCall, c)
    /\ UNCHANGED <<stabVars, matcherVars, roiVars, replayVars, built, ctlVars>>

NoOpProcess(detections, source_id) ==
    NoOpCall([source_id |-> source_id, detections |-> detections,
              result |-> NoOpStabilizer_process(detections, source_id),
              op |-> "process"])

NoOpReset(source_id) == NoOpCall([source_id |-> source_id, op |-> "reset"])

NoOpGetStats(source_id) ==
    NoOpCall([source_id |-> source_id, result |-> NoOpStabilizer_get_stats(source_id),
              op |-> "get_stats"])

NextNoOp ==
    \/ NoOpReady /\ \E detections \in NoOpInputs, source_id \in NoOpSources :
                        NoOpProcess(detections, source_id)
    \/ NoOpReady /\ \E source_id \in NoOpSources \cup {NoSource} : NoOpReset(source_id)
    \/ NoOpReady /\ \E source_id \in NoOpSources : NoOpGetStats(source_id)

SpecNoOp == InitWith(DefaultCfg) /\ [][NextNoOp]_vars

(***************************************************************************)
(* The specification of stabilizer construction: a stabilizer is built     *)
(* once, by the factory from a StabilizationConfig or by calling the       *)
(* constructor of TemporalHysteresisStabilizer, with parameters inside and *)
(* outside their ranges; a temporal stabilizer that was built then         *)
(* processes frames.  Until something is built the stabilizer variables    *)
(* hold the fields of a default instance that processes nothing.           *)
(***************************************************************************)
MaxBuildFrames == 2
MaxBuildMinFrames == 2
MaxBuildMaxGap == 1

BuildModes == {"none", "temporal", "Temporal", "iou_tracking"}
BuildMinFrames == 0..MaxBuildMinFrames
BuildMaxGaps == -1..MaxBuildMaxGap
BuildAppearConfs == {DefaultPersistConf, DefaultAppearConf, 110}
BuildPersistConfs == {-10, DefaultPersistConf, DefaultAppearConf}

StabilizationConfigs ==
    {[mode |-> mode, temporal_min_frames |-> m, temporal_max_gap |-> g,
      hysteresis_appear_conf |-> a, hysteresis_persist_conf |-> p] :
        mode \in BuildModes, m \in BuildMinFrames, g \in BuildMaxGaps,
        a \in BuildAppearConfs, p \in BuildPersistConfs}

\* a construction and what it leaves: the fields of a temporal stabilizer, if one was made
Build(via, args, outcome) ==
    /\ built = <<>>
    /\ built' = <<[outcome |-> outcome, via |-> via, args |-> args]>>
    /\ cfg' = IF IsTemporal(outcome) THEN outcome ELSE cfg
    /\ UNCHANGED <<tracks, frame, absentRun, lastSrc, lastDets, prevTracks, preEvict,
                   matchLog, lastOut, matcherVars, roiVars, replayVars, fnCall, ctlVars>>

CreateStabilizationStrategy(config) ==
    Build("create_stabilization_strategy", config, create_stabilization_strategy(config))

ConstructTemporal(min_frames, max_gap, appear_conf, persist_conf) ==
    Build("TemporalHysteresisStabilizer",
          <<min_frames, max_gap, appear_conf, persist_conf>>,
          TemporalHysteresisStabilizer(min_frames, max_gap, appear_conf, persist_conf))

ProcessBuilt(dets) ==
    /\ built # <<>>
    /\ IsTemporal(built[1].outcome)
    /\ frame < MaxBuildFrames
    /\ Record(DefaultSource, dets, process(tracks[DefaultSource], dets, cfg, Still(dets)))

NextBuild ==
    \/ built = <<>> /\ \E config \in StabilizationConfigs : CreateStabilizationStrategy(config)
    \/ built = <<>> /\ \E min_frames \in BuildMinFrames, max_gap \in BuildMaxGaps :
                          \E appear_conf \in BuildAppearConfs,
                             persist_conf \in BuildPersistConfs :
                              ConstructTemporal(min_frames, max_gap, appear_conf,
                                                persist_conf)
    \/ \E dets \in ReplayInputs : ProcessBuilt(dets)

SpecBuild == InitWith(DefaultCfg) /\ [][NextBuild]_vars

(***************************************************************************)
(* The specification of ROI strategy construction: a strategy is built     *)
(* once, by the factory from a mode and a ROIStrategyConfig or by calling  *)
(* the constructor of ROIState or of FixedROIState, with parameters inside *)
(* and outside their ranges; a ROIState that was built is then updated     *)
(* from the detections of a frame.                                         *)
(***************************************************************************)
RoiModes == {"none", "adaptive", "Fixed", "crop"}
RoiBuildMargins == {0, 25, 125}
RoiBuildSmoothings == {-1, 2}
RoiBuildMultiples == 1..MaxRoiMultiple
RoiBuildLows == {-25, 0, 25, 75}
RoiBuildHighs == {25, 75, 125}

ROIStrategyConfigs ==
    {[imgsz |-> 2, adaptive_margin |-> margin, adaptive_smoothing |-> smoothing,
      adaptive_min_roi_multiple |-> lo, adaptive_max_roi_multiple |-> hi,
      adaptive_resize_to_model |-> resize,
      fixed_x_min |-> x_min, fixed_x_max |-> x_max, fixed_y_min |-> 25,
      fixed_y_max |-> y_max, fixed_show_overlay |-> TRUE,
      fixed_resize_to_model |-> FALSE] :
        margin \in RoiBuildMargins, smoothing \in RoiBuildSmoothings,
        lo \in 0..MaxRoiMultiple, hi \in RoiBuildMultiples, resize \in BOOLEAN,
        x_min \in RoiBuildLows, x_max \in RoiBuildHighs, y_max \in RoiBuildHighs}

\* a construction and what it leaves: the parameters of a ROIState, if one was made
BuildRoi(via, args, outcome) ==
    /\ built = <<>>
    /\ built' = <<[outcome |-> outcome, via |-> via, args |-> args]>>
    /\ roiCfg' = IF IsROIState(outcome) THEN outcome ELSE roiCfg
    /\ UNCHANGED <<stabVars, matcherVars, replayVars, geo, roi, roiCall, fnCall, ctlVars>>

ValidateAndCreateRoiStrategy(mode, config) ==
    BuildRoi("validate_and_create_roi_strategy", <<mode, config>>,
             validate_and_create_roi_strategy(mode, config))

ConstructROIState(margin, min_roi_multiple, max_roi_multiple, resize_to_model) ==
    BuildRoi("ROIState",
             <<margin, 2, DefaultMinRoiSize, 2, min_roi_multiple, max_roi_multiple,
               resize_to_model>>,
             ROIState(margin, 2, DefaultMinRoiSize, 2, min_roi_multiple,
                      max_roi_multiple, resize_to_model))

ConstructFixedROIState(x_min, y_min, x_max, y_max) ==
    BuildRoi("FixedROIState", <<x_min, y_min, x_max, y_max, TRUE, FALSE>>,
             FixedROIState(x_min, y_min, x_max, y_max, TRUE, FALSE))

UpdateBuilt(source_id, detections, frame_shape) ==
    /\ built # <<>>
    /\ IsROIState(built[1].outcome)
    /\ roiCall = <<>>
    /\ UpdateFromDetections(source_id, detections, frame_shape)

NextRoiBuild ==
    \/ built = <<>> /\ \E mode \in RoiModes, config \in ROIStrategyConfigs :
                          ValidateAndCreateRoiStrategy(mode, config)
    \/ built = <<>> /\ \E margin \in {0, 25}, resize_to_model \in BOOLEAN :
                          \E min_roi_multiple \in RoiBuildMultiples,
                             max_roi_multiple \in RoiBuildMultiples :
                              ConstructROIState(margin, min_roi_multiple,
                                                max_roi_multiple, resize_to_model)
    \/ built = <<>> /\ \E x_min \in RoiBuildLows, y_min \in RoiBuildLows :
                          \E x_max \in RoiBuildHighs, y_max \in RoiBuildHighs :
                              ConstructFixedROIState(x_min, y_min, x_max, y_max)
    \/ (built # <<>> /\ roiCall = <<>>)
          /\ \E detections \in RoiInputs, frame_shape \in RoiFrames :
                UpdateBuilt(DefaultSource, detections, frame_shape)

SpecRoiBuild == InitWith(DefaultCfg) /\ [][NextRoiBuild]_vars

(***************************************************************************)
(* The specification of the controller.  The main thread runs run():       *)
(* setup() up to the connection of the control plane, whose thread runs    *)
(* from then on; is_running = True; pipeline.start(), which returns or     *)
(* raises; the loop that waits for shutdown_event; cleanup(), statement by *)
(* statement, up to os._exit(0), which stops every thread where it stands. *)
(* A signal handler runs on the main thread, between any two of its        *)
(* statements once run() has installed it, those of a signal handler that  *)
(* is already running included: the handlers nest, and the one interrupted *)
(* goes on when the one that interrupted it has returned.  The control     *)
(* plane's thread runs one handler at a time, statement by statement: a    *)
(* callback the controller has stored on the control plane is called, or a *)
(* message names a command of the registry; a callback may also call       *)
(* enable() or disable() of the inference handler, disable() in two        *)
(* statements.  Commands are registered by whoever holds the control       *)
(* plane.  The pipeline has two threads: one calls the inference handler   *)
(* on each frame, which reads the handler's flag and then the ROI state;   *)
(* the other hands each prediction to the sink, which reads the ROI state  *)
(* and then stores the new box.  No lock is held anywhere, so any          *)
(* statement of one thread may run between two statements of another.      *)
(*                                                                         *)
(* ctlCall is the handler the control plane's thread runs or has last run: *)
(* the fields of the controller when its first statement ran, what it      *)
(* raised and the methods called so far; of enable() and disable(), the    *)
(* name.                                                                   *)
(***************************************************************************)
MaxStops == 2

\* the fields of the controller its handlers read and write
Self ==
    [pipeline |-> pipeline, is_running |-> is_running,
     shutdown_event |-> shutdown_event, handler |-> handler]

\* the ROI state of the inference handler: its parameters and its dict
ctlRoi == <<roiCfg, roi>>

ctlRest == <<stabVars, matcherVars, geo, roiCall, replayVars, built>>

\* with the positions of the pipeline's threads
ctlOthers == <<pcPipe, pcSink, ctlRest>>

\* the command names of the messages sent
Commands == {"stop", "STOP", "pause", "toggle_crop"}

\* the commands that get registered, each with the controller's handler of that name
RegistrableCommands == {"stop"}

\* the frames of the video are 4x4 pixels, and the model sees one object in them,
\* one pixel wide and high
HandlerFrame == <<4, 4>>
HandlerPoints == {<<DetScale * 3, DetScale * 3>>}

\* the ROIStrategyConfig setup() builds from the config
HandlerRoiConfig ==
    [imgsz |-> 3, adaptive_margin |-> 0, adaptive_smoothing |-> 2,
     adaptive_min_roi_multiple |-> 1, adaptive_max_roi_multiple |-> 1,
     adaptive_resize_to_model |-> FALSE,
     fixed_x_min |-> 25, fixed_x_max |-> 75, fixed_y_min |-> 25,
     fixed_y_max |-> 75, fixed_show_overlay |-> TRUE,
     fixed_resize_to_model |-> FALSE]

InitCtl ==
    /\ StabInit(DefaultCfg)
    /\ strategies = DefaultStrategies(DefaultIoUThreshold)
    /\ probe = <<>>
    /\ RoiIdle
    /\ ReplayIdle
    /\ fnCall = <<>>
    /\ built = <<>>
    /\ \E config \in ControllerConfigs : Constructed(config)

\* a statement has left the fields of the controller as self
Write(self) ==
    /\ pipeline' = self.pipeline
    /\ is_running' = self.is_running
    /\ shutdown_event' = self.shutdown_event
    /\ handler' = self.handler

\* setup() up to the connection of the control plane; in adaptive mode the handler
\* gets the ROIState that validate_and_create_roi_strategy returns
SetupConnect(data_ok, control_ok) ==
    /\ phase = "constructed"
    /\ IF data_ok
       THEN /\ pipeline' = NewPipeline
            /\ handler' = InferenceHandlerOf(ctlCfg)
            /\ LET roi_state == validate_and_create_roi_strategy(ctlCfg.ROI_MODE,
                                                                  HandlerRoiConfig)
               IN roiCfg' = IF IsROIState(roi_state) THEN roi_state ELSE roiCfg
            /\ registry' = CommandRegistry
            /\ callbacks' = CallbacksOf(ctlCfg)
            /\ phase' = IF control_ok THEN "connected" ELSE "returned"
       ELSE /\ phase' = "returned"
            /\ UNCHANGED <<pipeline, handler, roiCfg, registry, callbacks>>
    /\ UNCHANGED <<ctlCfg, is_running, shutdown_event, pcMqtt, pcMain, pcSig, stops,
                   ctlCall, fnCall, roi, ctlOthers>>

\* setup(): self.is_running = True, before the pipeline is started
SetupMark ==
    /\ phase = "connected"
    /\ is_running' = TRUE
    /\ phase' = "starting"
    /\ UNCHANGED <<ctlCfg, pipeline, registry, callbacks, shutdown_event, handler, pcMqtt,
                   pcMain, pcSig, stops, ctlCall, fnCall, ctlRoi, ctlOthers>>

\* setup(): self.pipeline.start() returns, or it raises and is_running is taken back
SetupStart(start_raises) ==
    /\ phase = "starting"
    /\ is_running' = IF start_raises THEN FALSE ELSE is_running
    /\ phase' = IF start_raises THEN "returned" ELSE "running"
    /\ UNCHANGED <<ctlCfg, pipeline, registry, callbacks, shutdown_event, handler, pcMqtt,
                   pcMain, pcSig, stops, ctlCall, fnCall, ctlRoi, ctlOthers>>

\* the control plane's thread runs
Listening == phase \in {"connected", "starting", "running"}

\* command_registry.register(command, handler) on the connected control plane;
\* registering a command again with the same handler changes nothing
Register(command) ==
    /\ Listening
    /\ command \notin registry
    /\ registry' = register(registry, command)
    /\ UNCHANGED <<ctlCfg, phase, pipeline, callbacks, is_running, shutdown_event, handler,
                   pcMqtt, pcMain, pcSig, stops, ctlCall, fnCall, ctlRoi, ctlOthers>>

LastCtl == ctlCall[1]

\* the handler of the controller that ctlCall is about: "" for a message that
\* executed nothing
Running ==
    IF LastCtl.op # "_on_message" THEN LastCtl.op
    ELSE IF LastCtl.result.executed THEN HandlerOf(LowerCommand(LastCtl.args[1]))
    ELSE ""

\* the control plane's thread enters the handler op and runs its first statement,
\* which leaves r
Enter(op, r) ==
    /\ Listening
    /\ pcMqtt = "idle"
    /\ op = "_handle_stop" => stops < MaxStops
    /\ stops' = IF op = "_handle_stop" THEN stops + 1 ELSE stops
    /\ Write(r.self)
    /\ pcMqtt' = IF r.at = "return" THEN "idle" ELSE r.at
    /\ UNCHANGED <<ctlCfg, phase, registry, callbacks, pcMain, pcSig, fnCall, ctlRoi, ctlOthers>>

\* one of the callbacks the controller has stored is called
Callback(name) ==
    /\ name \in callbacks
    /\ LET r == HandlerStep(CallbackOf(name), "if", Self, ctlCfg, FALSE)
       IN /\ Enter(CallbackOf(name), r)
          /\ ctlCall' = <<[before |-> Self,
                           result |-> [raised |-> r.raised, called |-> r.called],
                           op |-> CallbackOf(name), args |-> <<>>]>>

\* a message arrives: _on_message executes the command, if it is registered
OnMessage(command) ==
    LET m == _on_message(registry, command)
        r == IF m.executed THEN HandlerStep(m.method, "if", Self, ctlCfg, FALSE)
             ELSE Left(Self, <<>>, "", "return")
    IN /\ Enter(m.method, r)
       /\ ctlCall' = <<[before |-> Self,
                        result |-> [raised |-> "", called |-> r.called,
                                    executed |-> m.executed],
                        op |-> "_on_message", args |-> <<command>>]>>

\* the next statement of the handler the control plane's thread is in
MqttStep(raises) ==
    /\ phase # "exited"
    /\ pcMqtt # "idle"
    /\ Running # "disable"
    /\ LET r == HandlerStep(Running, pcMqtt, Self, ctlCfg, raises)
       IN /\ Write(r.self)
          /\ pcMqtt' = IF r.at = "return" THEN "idle" ELSE r.at
          /\ ctlCall' = <<[LastCtl EXCEPT !.result.called = @ \o r.called]>>
    /\ UNCHANGED <<ctlCfg, phase, registry, callbacks, pcMain, pcSig, stops, fnCall,
                   ctlRoi, ctlOthers>>

\* the main thread runs its own statements: it is in run() and no signal handler is
\* running on it
MainRuns == phase = "running" /\ pcSig = <<>>

\* run(): the loop finds shutdown_event set and cleanup() begins
LoopExit ==
    /\ MainRuns
    /\ pcMain = "idle"
    /\ shutdown_event
    /\ pcMain' = "if"
    /\ UNCHANGED <<ctlCfg, phase, pipeline, registry, callbacks, is_running, shutdown_event,
                   handler, pcMqtt, pcSig, stops, ctlCall, fnCall, ctlRoi, ctlOthers>>

\* the next statement of cleanup(); os._exit(0) ends the process, whether or not
\* the control plane's thread has left the handler it is in
CleanupStep(terminate_raises) ==
    /\ MainRuns
    /\ pcMain # "idle"
    /\ LET r == cleanup(pcMain, Self, terminate_raises)
       IN /\ Write(r.self)
          /\ pcMain' = IF r.at = "return" THEN "idle" ELSE r.at
          /\ phase' = IF r.at = "return" THEN "exited" ELSE phase
    /\ UNCHANGED <<ctlCfg, registry, callbacks, pcMqtt, pcSig, stops, ctlCall, fnCall,
                   ctlRoi, ctlOthers>>

\* SIGINT or SIGTERM arrives once run() has installed the handler: the handler
\* begins at once, inside a signal handler that is running as well
Signal ==
    /\ phase = "running"
    /\ stops < MaxStops
    /\ stops' = stops + 1
    /\ pcSig' = <<"set">> \o pcSig
    /\ UNCHANGED <<ctlCfg, phase, pipeline, registry, callbacks, is_running, shutdown_event,
                   handler, pcMqtt, pcMain, ctlCall, fnCall, ctlRoi, ctlOthers>>

\* the next statement of the innermost _signal_handler; when it returns, the
\* handler it interrupted goes on
SignalStep(terminate_raises) ==
    /\ phase = "running"
    /\ pcSig # <<>>
    /\ LET r == _signal_handler(Head(pcSig), Self, terminate_raises)
       IN /\ Write(r.self)
          /\ pcSig' = IF r.at = "return" THEN Tail(pcSig) ELSE <<r.at>> \o Tail(pcSig)
    /\ UNCHANGED <<ctlCfg, phase, registry, callbacks, pcMqtt, pcMain, stops, ctlCall,
                   fnCall, ctlRoi, ctlOthers>>

\* the pipeline's threads work for an adaptive handler: the pipeline is being
\* started or has been started, and the process has not exited
PipelineAlive ==
    /\ phase \in {"starting", "running"}
    /\ handler # None
    /\ handler.handler_class = "AdaptiveInferenceHandler"

\* the video source still delivers frames: terminate() has not returned
Streaming == PipelineAlive /\ pipeline.terminated = 0

\* the frame the video source delivers
HandlerVideoFrame == VideoFrame(FullImage(HandlerFrame), DefaultSource)

\* AdaptiveInferenceHandler.__call__ on one frame: it reads self._enabled for the
\* argument enable_crop and calls adaptive_roi_inference
HandlerCall(point) ==
    /\ Streaming
    /\ pcPipe = <<>>
    /\ pcPipe' = <<[point |-> point, enable_crop |-> handler.enabled]>>
    /\ UNCHANGED <<ctlCfg, phase, pipeline, registry, callbacks, is_running, shutdown_event,
                   handler, pcMqtt, pcMain, pcSig, pcSink, stops, ctlCall, fnCall, ctlRoi,
                   ctlRest>>

\* adaptive_roi_inference on that frame: roi_state.get_roi when enable_crop was
\* read true, then the crop, the model and the transform; the prediction waits in
\* fnCall until the sink takes it.  before is the handler as it is now.
HandlerInfer ==
    /\ PipelineAlive
    /\ pcPipe # <<>>
    /\ LET enable_crop == pcPipe[1].enable_crop
           point == pcPipe[1].point
           box == get_roi(roi, HandlerVideoFrame.source_id)
       IN /\ Representable(crop_frame_if_roi(HandlerVideoFrame,
                                             IF enable_crop THEN box ELSE None,
                                             roiCfg.imgsz,
                                             roiCfg.resize_to_model).frame.image, point)
          /\ fnCall' = <<[before |-> [handler |-> handler],
                          result |-> adaptive_roi_inference(HandlerVideoFrame, box,
                                                            roiCfg.imgsz,
                                                            roiCfg.resize_to_model,
                                                            enable_crop, TRUE, point),
                          op |-> "__call__"]>>
    /\ pcPipe' = <<>>
    /\ UNCHANGED <<ctlCfg, phase, pipeline, registry, callbacks, is_running, shutdown_event,
                   handler, pcMqtt, pcMain, pcSig, pcSink, stops, ctlCall, ctlRoi, ctlRest>>

\* multi_sink hands the prediction of the handler's call to roi_update_sink, on the
\* pipeline's dispatching thread: update_from_detections up to its reading of the
\* stored box, or to its end when it stores None
RoiUpdateSink ==
    /\ PipelineAlive
    /\ fnCall # <<>>
    /\ pcSink = <<>>
    /\ LET prediction == fnCall[1].result
           source_id == HandlerVideoFrame.source_id
           frame_shape == HandlerVideoFrame.image.shape
           detections == convert_predictions_to_sv_detections(prediction)
       IN IF ReadsPrevious(roiCfg, detections, frame_shape)
          THEN /\ pcSink' = <<[source_id |-> source_id,
                               new_roi |-> Smoothed(roiCfg,
                                                    NewRoi(roiCfg, detections, frame_shape),
                                                    get_roi(roi, source_id))]>>
               /\ roi' = roi
          ELSE /\ pcSink' = <<>>
               /\ roi' = roi_update_sink(prediction, HandlerVideoFrame, roi, roiCfg)
    /\ fnCall' = <<>>
    /\ UNCHANGED <<ctlCfg, phase, pipeline, registry, callbacks, is_running, shutdown_event,
                   handler, pcMqtt, pcMain, pcSig, pcPipe, stops, ctlCall, roiCfg, ctlRest>>

\* update_from_detections stores the box: self._roi_by_source[source_id] = new_roi
RoiUpdateStore ==
    /\ PipelineAlive
    /\ pcSink # <<>>
    /\ roi' = Put(roi, pcSink[1].source_id, pcSink[1].new_roi)
    /\ pcSink' = <<>>
    /\ UNCHANGED <<ctlCfg, phase, pipeline, registry, callbacks, is_running, shutdown_event,
                   handler, pcMqtt, pcMain, pcSig, pcPipe, stops, ctlCall, fnCall, roiCfg,
                   ctlRest>>

\* the control plane's thread is free to call the AdaptiveInferenceHandler that
\* setup() has built
Toggleable ==
    /\ Listening
    /\ pcMqtt = "idle"
    /\ handler # None
    /\ handler.handler_class = "AdaptiveInferenceHandler"

\* inference_handler.enable(), called from a callback of the control plane
Enable ==
    /\ Toggleable
    /\ handler' = enable(handler)
    /\ ctlCall' = <<[op |-> "enable"]>>
    /\ UNCHANGED <<ctlCfg, phase, pipeline, registry, callbacks, is_running, shutdown_event,
                   pcMqtt, pcMain, pcSig, stops, fnCall, ctlRoi, ctlOthers>>

\* inference_handler.disable(), called from a callback of the control plane: its
\* first statement clears the flag
Disable ==
    /\ Toggleable
    /\ LET r == disable("set", handler, roi)
       IN /\ handler' = r.self
          /\ pcMqtt' = r.at
          /\ ctlCall' = <<[op |-> "disable"]>>
    /\ UNCHANGED <<ctlCfg, phase, pipeline, registry, callbacks, is_running, shutdown_event,
                   pcMain, pcSig, stops, fnCall, ctlRoi, ctlOthers>>

\* the second statement of disable(): self.roi_state.reset()
DisableReset ==
    /\ phase # "exited"
    /\ pcMqtt = "reset"
    /\ Running = "disable"
    /\ LET r == disable(pcMqtt, handler, roi)
       IN /\ roi' = r.roi_state
          /\ pcMqtt' = IF r.at = "return" THEN "idle" ELSE r.at
    /\ UNCHANGED <<ctlCfg, phase, pipeline, registry, callbacks, is_running, shutdown_event,
                   handler, pcMain, pcSig, stops, ctlCall, fnCall, roiCfg, ctlOthers>>

\* the statements of the main thread, those of a signal handler on it included
MainThread ==
    \/ SetupMark
    \/ \E start_raises \in BOOLEAN : SetupStart(start_raises)
    \/ LoopExit
    \/ \E terminate_raises \in BOOLEAN : CleanupStep(terminate_raises)
    \/ \E terminate_raises \in BOOLEAN : SignalStep(terminate_raises)

\* the statements of the control plane's thread inside a handler
ControlThread ==
    \/ \E raises \in BOOLEAN : MqttStep(raises)
    \/ DisableReset

\* the statements of the pipeline's two threads
PipelineThreads ==
    \/ \E point \in HandlerPoints : HandlerCall(point)
    \/ HandlerInfer
    \/ RoiUpdateSink
    \/ RoiUpdateStore

\* the main thread, the control plane's thread and what reaches them from outside
NextRun ==
    \/ \E data_ok \in BOOLEAN, control_ok \in BOOLEAN : SetupConnect(data_ok, control_ok)
    \/ MainThread
    \/ \E command \in RegistrableCommands : Register(command)
    \/ \E name \in {"on_stop", "on_pause", "on_resume", "on_toggle_crop"} : Callback(name)
    \/ \E command \in Commands : OnMessage(command)
    \/ ControlThread
    \/ Signal
    \/ Enable
    \/ Disable

NextCtl == NextRun \/ PipelineThreads

SpecCtl == InitCtl /\ [][NextCtl]_vars

\* every thread is scheduled: a thread that can run a statement gets to run one.
\* start(), terminate() and join() return or raise.  The pipeline's threads are
\* left out of this specification: their statements write pcPipe, pcSink, fnCall
\* and roi only, which no statement of the other threads reads (disable() empties
\* roi whatever it holds), so on every other variable the behaviours of SpecCtl
\* in which the main thread and the control plane's thread are scheduled are the
\* behaviours of this specification.
SpecCtlLive ==
    InitCtl /\ [][NextRun]_vars /\ WF_vars(MainThread) /\ WF_vars(ControlThread)

(***************************************************************************)
(* Helpers of the claims.                                                  *)
(***************************************************************************)
Live == tracks[lastSrc]

\* the track the log entry e is about, as it is at the end of step 3
TrackAfter(e) == TracksOf(preEvict, e.cls)[e.idx]

SameBox(a, b) ==
    a.x = b.x /\ a.y = b.y /\ a.width = b.width /\ a.height = b.height

\* the emitted record r carries the class, box and confidence of track t
Carries(r, t) ==
    r.class = t.class_name /\ r.confidence = t.confidence /\ SameBox(r, t)

\* the places <<k, i>> of a dict: entry k, index i of its list
Positions(d) == UNION {{<<k, i>> : i \in DOMAIN d[k].list} : k \in DOMAIN d}

RemoveAt(s, j) == [i \in 1..(Len(s) - 1) |-> IF i < j THEN s[i] ELSE s[i + 1]]

(***************************************************************************)
(* C1. confirmed is monotonic: every track that was confirmed when the     *)
(* last process() call began is still confirmed at the same place of its   *)
(* class's list after matching and marking (whether it was updated, found  *)
(* with too low a confidence, or missed), and eviction only removes        *)
(* tracks: every track that is live afterwards is one of those, unchanged. *)
(***************************************************************************)
C1_ConfirmedMonotonic ==
    frame >= 1 =>
        /\ \A p \in Positions(prevTracks) :
              prevTracks[p[1]].list[p[2]].confirmed =>
                  /\ p \in Positions(preEvict)
                  /\ preEvict[p[1]].cls = prevTracks[p[1]].cls
                  /\ preEvict[p[1]].list[p[2]].confirmed
        /\ AllTracks(Live) \subseteq AllTracks(preEvict)

\* a confirmed track was not updated in the last call and is still live and confirmed
C1_Witness ==
    /\ frame >= 1
    /\ \E p \in Positions(prevTracks) :
          /\ prevTracks[p[1]].list[p[2]].confirmed
          /\ preEvict[p[1]].list[p[2]].gap_frames >= 1
          /\ preEvict[p[1]].list[p[2]] \in AllTracks(Live)

(***************************************************************************)
(* C2. One object presented with confidence >= appear_conf in every frame  *)
(* since construction: the output is empty in frames 1..min_frames-1 and   *)
(* holds that object at frame min_frames.                                  *)
(***************************************************************************)
C2_ConfirmedAtMinFrames ==
    /\ (frame >= 1 /\ frame < cfg.min_frames) => lastOut = <<>>
    /\ frame = cfg.min_frames => lastOut = lastDets

(***************************************************************************)
(* C3. A track that is live when a frame without detections begins is      *)
(* still live after that frame while the run of frames without detections  *)
(* is at most max_gap long, and is gone once the run is max_gap + 1 long.  *)
(* (The frame before the run presented the object with confidence          *)
(* >= appear_conf, so the run of missed frames of its track starts there.) *)
(***************************************************************************)
C3_EvictedExactlyAfterMaxGap ==
    (/\ absentRun >= 1
     /\ frame - absentRun >= 1
     /\ NumTracks(prevTracks) >= 1)
        => /\ absentRun <= cfg.max_gap => NumTracks(Live) >= 1
           /\ absentRun >= cfg.max_gap + 1 => NumTracks(Live) = 0

(***************************************************************************)
(* C4. The list returned by process() holds exactly one record for each    *)
(* track that is confirmed with gap_frames = 0 at the end of step 3,       *)
(* carrying that track's class, box and confidence, and nothing else; and  *)
(* each of those tracks is live after the call.                            *)
(***************************************************************************)
C4_Emitting(d) ==
    {p \in Positions(d) : d[p[1]].list[p[2]].confirmed
                          /\ d[p[1]].list[p[2]].gap_frames = 0}

C4_EmitsExactlyConfirmedSeen ==
    frame >= 1 =>
        /\ Len(lastOut) = Cardinality(C4_Emitting(preEvict))
        /\ \A i \in DOMAIN lastOut :
              Cardinality({j \in DOMAIN lastOut : lastOut[j] = lastOut[i]})
                  = Cardinality({p \in C4_Emitting(preEvict) :
                                   Carries(lastOut[i], preEvict[p[1]].list[p[2]])})
        /\ \A p \in C4_Emitting(preEvict) :
              preEvict[p[1]].list[p[2]] \in AllTracks(Live)

\* a frame that emits one track and keeps another, live one out of the output
C4_Witness ==
    /\ frame >= 1
    /\ Len(lastOut) >= 1
    /\ \E t \in AllTracks(Live) : ~(t.confirmed /\ t.gap_frames = 0)

(***************************************************************************)
(* C5. A confirmed track matched by a detection whose confidence is in     *)
(* [persist_conf, appear_conf) is updated (gap_frames 0, box and           *)
(* confidence those of the detection) and emitted in that frame.           *)
(***************************************************************************)
C5_Case(e) ==
    /\ e.kind = "matched"
    /\ e.before.confirmed
    /\ e.det.confidence >= cfg.persist_conf
    /\ e.det.confidence < cfg.appear_conf

C5_ConfirmedPersistsAtLowerThreshold ==
    \A j \in DOMAIN matchLog :
        C5_Case(matchLog[j]) =>
            /\ TrackAfter(matchLog[j]).gap_frames = 0
            /\ TrackAfter(matchLog[j]).confidence = matchLog[j].det.confidence
            /\ SameBox(TrackAfter(matchLog[j]), matchLog[j].det)
            /\ \E i \in DOMAIN lastOut : lastOut[i] = matchLog[j].det

\* such a match, replacing another box and a higher confidence
C5_Witness ==
    \E j \in DOMAIN matchLog :
        /\ C5_Case(matchLog[j])
        /\ ~SameBox(matchLog[j].before, matchLog[j].det)
        /\ matchLog[j].before.confidence > matchLog[j].det.confidence

(***************************************************************************)
(* C6. A detection below appear_conf that matches no track creates no      *)
(* track and adds nothing to the output: the live tracks and the returned  *)
(* list are those of the same call without that detection.                 *)
(***************************************************************************)
C6_Case(e) == e.kind = "unmatched" /\ e.det.confidence < cfg.appear_conf

C6_LowConfidenceUnmatchedIgnored ==
    \A j \in DOMAIN matchLog :
        C6_Case(matchLog[j]) =>
            LET r == process(prevTracks, RemoveAt(lastDets, j), cfg, Still(RemoveAt(lastDets, j)))
            IN /\ Live = r.tracks
               /\ lastOut = r.out
               /\ NumTracks(preEvict) = NumTracks(r.marked)

\* such a detection, in a frame that leaves live tracks
C6_Witness ==
    /\ \E j \in DOMAIN matchLog : C6_Case(matchLog[j])
    /\ NumTracks(Live) >= 1

(***************************************************************************)
(* C7. A track matched by a detection below the required threshold keeps   *)
(* its box and confidence, has consecutive_frames 0 and its gap_frames is  *)
(* one more than before: the miss is counted once.                         *)
(***************************************************************************)
C7_Case(e) ==
    /\ e.kind = "matched"
    /\ e.det.confidence <
          (IF e.before.confirmed THEN cfg.persist_conf ELSE cfg.appear_conf)

C7_InsufficientMatchCountsOneMiss ==
    \A j \in DOMAIN matchLog :
        C7_Case(matchLog[j]) =>
            /\ SameBox(TrackAfter(matchLog[j]), matchLog[j].before)
            /\ TrackAfter(matchLog[j]).confidence = matchLog[j].before.confidence
            /\ TrackAfter(matchLog[j]).consecutive_frames = 0
            /\ TrackAfter(matchLog[j]).gap_frames = matchLog[j].before.gap_frames + 1

\* such a match on a confirmed track, by a detection at another box
C7_Witness ==
    \E j \in DOMAIN matchLog :
        C7_Case(matchLog[j]) /\ matchLog[j].before.confirmed
        /\ ~SameBox(matchLog[j].before, matchLog[j].det)

(***************************************************************************)
(* C8. Within one process() call the matching is one-to-one: every         *)
(* detection is handled once, and no track (class_name, idx) is matched by *)
(* two detections.                                                         *)
(***************************************************************************)
C8_OneToOneMatching ==
    /\ Len(matchLog) = Len(lastDets)
    /\ \A i, j \in DOMAIN matchLog :
          (/\ i # j
           /\ matchLog[i].kind = "matched"
           /\ matchLog[j].kind = "matched"
           /\ matchLog[i].cls = matchLog[j].cls)
              => matchLog[i].idx # matchLog[j].idx

\* two detections of one class matched to two tracks in one call
C8_Witness ==
    \E i, j \in DOMAIN matchLog :
        /\ i # j
        /\ matchLog[i].kind = "matched"
        /\ matchLog[j].kind = "matched"
        /\ matchLog[i].cls = matchLog[j].cls

(***************************************************************************)
(* C9. Two same-class, spatially disjoint detections presented together in *)
(* every frame since construction: after every frame the tracker holds     *)
(* exactly two live tracks, one at each of the frame's two positions, and  *)
(* from frame min_frames on the call returns exactly two detections, the   *)
(* two of the frame.  The two objects never share a track.                 *)
(***************************************************************************)
C9_TwoObjectsTwoTracks ==
    frame >= 1 =>
        /\ NumTracks(Live) = 2
        /\ \A j \in DOMAIN lastDets :
              \E t \in AllTracks(Live) : SameBox(t, lastDets[j])
        /\ frame >= cfg.min_frames =>
              /\ Len(lastOut) = 2
              /\ {lastOut[i] : i \in DOMAIN lastOut} = {lastDets[j] : j \in DOMAIN lastDets}

(***************************************************************************)
(* C10. Permuting the two detections of a frame changes neither the track  *)
(* each position ends up in nor the set of detections returned: the call   *)
(* on the reversed list leaves the same tracks at the same places (the     *)
(* same set of tracks when the frame creates them) and returns the same    *)
(* set.  As stated, for every frame of two disjoint objects.               *)
(***************************************************************************)
C10_Reversed ==
    process(prevTracks, <<lastDets[2], lastDets[1]>>, cfg, Still(lastDets))

C10_SameAssignment ==
    /\ AllTracks(C10_Reversed.tracks) = AllTracks(Live)
    /\ NumTracks(prevTracks) >= 1 => C10_Reversed.tracks = Live
    /\ {C10_Reversed.out[i] : i \in DOMAIN C10_Reversed.out}
          = {lastOut[i] : i \in DOMAIN lastOut}

C10_OrderIndependent == frame >= 1 => C10_SameAssignment

(***************************************************************************)
(* C11. Whatever the IoU threshold and whichever strategies are enabled,   *)
(* the track find_best_match returns for a detection has the detection's   *)
(* class (and is an unmatched track of the list): a detection is never     *)
(* matched to a track of another class, even one at the very same box.     *)
(***************************************************************************)
C11_NeverMatchesAnotherClass ==
    \A n \in DOMAIN probe :
        probe[n].result.found =>
            /\ probe[n].result.idx \in DOMAIN probe[n].trackList
            /\ probe[n].result.idx \notin probe[n].matched_indices
            /\ probe[n].trackList[probe[n].result.idx].class_name
                  = probe[n].detection.class

\* the detection is matched to the second track although the first one, of another
\* class, has the detection's box
C11_Witness ==
    \E n \in DOMAIN probe :
        /\ probe[n].result.found
        /\ probe[n].result.idx = 2
        /\ probe[n].matched_indices = {}
        /\ SameBox(probe[n].trackList[1], probe[n].detection)
        /\ probe[n].trackList[1].class_name # probe[n].detection.class

(***************************************************************************)
(* C12. A second stabilizer of the same configuration, started empty and   *)
(* fed the recorded frames at other times, returns for every frame the     *)
(* list the first one returned and is left with the same live tracks (so   *)
(* it evicted the same tracks in the same frames); the two differ at most  *)
(* in the time stamps of their tracks.                                     *)
(***************************************************************************)
C12_Untimed(d) ==
    [k \in DOMAIN d |->
        [d[k] EXCEPT !.list =
            [i \in DOMAIN d[k].list |-> [d[k].list[i] EXCEPT !.last_seen_time = 0]]]]

C12_Replayable ==
    replayed >= 1 =>
        /\ replicaOut = tape[replayed].out
        /\ C12_Untimed(replica) = C12_Untimed(tape[replayed].tracks)

\* the replica has returned a detection, holds a track seen at another time than
\* the first stabilizer's, and the frame before it evicted a track
C12_Witness ==
    /\ replayed >= 3
    /\ replicaOut # <<>>
    /\ replica # tape[replayed].tracks
    /\ NumTracks(tape[replayed - 1].tracks) < NumTracks(tape[replayed - 2].tracks)

(***************************************************************************)
(* C13. Whatever the box, imgsz and frame shape, make_square_multiple      *)
(* returns a square whose side is m * imgsz for a whole m between          *)
(* min_multiple and max_multiple.                                          *)
(***************************************************************************)
C13_SquareMultiple ==
    \A n \in DOMAIN geo :
        geo[n].op = "make_square_multiple" =>
            /\ is_square(geo[n].result)
            /\ \E m \in geo[n].min_multiple..geo[n].max_multiple :
                  width(geo[n].result) = m * geo[n].imgsz

(***************************************************************************)
(* C14. A box returned by expand or by make_square_multiple, for a box     *)
(* that lies inside the frame, has x1 >= 0, y1 >= 0, x2 <= frame width and *)
(* y2 <= frame height.                                                     *)
(***************************************************************************)
C14_ResultInsideFrame ==
    \A n \in DOMAIN geo :
        /\ geo[n].op \in {"expand", "make_square_multiple"}
        /\ InFrame(geo[n].self, geo[n].frame_shape)
        => /\ geo[n].result.x1 >= 0
           /\ geo[n].result.y1 >= 0
           /\ geo[n].result.x2 <= geo[n].frame_shape[2]
           /\ geo[n].result.y2 <= geo[n].frame_shape[1]

\* a box inside the frame whose margin reaches past the right and bottom edges
C14_Witness ==
    \E n \in DOMAIN geo :
        /\ geo[n].op = "expand"
        /\ InFrame(geo[n].self, geo[n].frame_shape)
        /\ geo[n].self.x2 < geo[n].frame_shape[2]
        /\ geo[n].self.y2 < geo[n].frame_shape[1]
        /\ expand_unclipped(geo[n].self, geo[n].margin, geo[n].frame_shape,
                            geo[n].preserve_square).x2 > geo[n].frame_shape[2]
        /\ expand_unclipped(geo[n].self, geo[n].margin, geo[n].frame_shape,
                            geo[n].preserve_square).y2 > geo[n].frame_shape[1]
        /\ geo[n].result.x2 = geo[n].frame_shape[2]
        /\ geo[n].result.y2 = geo[n].frame_shape[1]

(***************************************************************************)
(* C15. expand with preserve_square, applied to a square box inside the    *)
(* frame with a margin of 0, 0.1, 0.2, 0.3 or 0.5, returns a square, in a  *)
(* frame of any shape.                                                     *)
(***************************************************************************)
C15_ExpandKeepsSquare ==
    \A n \in DOMAIN geo :
        /\ geo[n].op = "expand"
        /\ geo[n].preserve_square
        /\ is_square(geo[n].self)
        /\ InFrame(geo[n].self, geo[n].frame_shape)
        => is_square(geo[n].result)

(***************************************************************************)
(* C16. smooth_with of two square boxes is a square box, for every alpha   *)
(* between 0 and 1.                                                        *)
(***************************************************************************)
C16_SmoothKeepsSquare ==
    \A n \in DOMAIN geo :
        /\ geo[n].op = "smooth_with"
        /\ is_square(geo[n].self)
        /\ is_square(geo[n].other)
        => is_square(geo[n].result)

\* the truncated average of two squares is not square and has been re-squared
C16_Witness ==
    \E n \in DOMAIN geo :
        /\ geo[n].op = "smooth_with"
        /\ is_square(geo[n].self)
        /\ is_square(geo[n].other)
        /\ ~is_square(Interpolate(geo[n].self, geo[n].other, geo[n].alpha))
        /\ is_square(geo[n].result)

(***************************************************************************)
(* C17. After update_from_detections with no detection, or with           *)
(* detections whose box has an area below min_roi_size times the frame     *)
(* area, the source holds None, whatever it held before.                   *)
(***************************************************************************)
C17_NoRoiStoresNone ==
    \A n \in DOMAIN roiCall :
        /\ roiCall[n].op = "update_from_detections"
        /\ \/ roiCall[n].detections = <<>>
           \/ TooSmall(roiCfg, NewRoi(roiCfg, roiCall[n].detections,
                                      roiCall[n].frame_shape),
                       roiCall[n].frame_shape)
        => get_roi(roi, roiCall[n].source_id) = None

\* a source that held a box is given detections whose box is too small
C17_Witness ==
    \E n \in DOMAIN roiCall :
        /\ roiCall[n].op = "update_from_detections"
        /\ roiCall[n].detections # <<>>
        /\ TooSmall(roiCfg, NewRoi(roiCfg, roiCall[n].detections,
                                   roiCall[n].frame_shape),
                    roiCall[n].frame_shape)
        /\ get_roi(roiCall[n].before, roiCall[n].source_id) # None
        /\ get_roi(roi, roiCall[n].source_id) = None

(***************************************************************************)
(* C18. After reset(s) the source s holds no box and every other source    *)
(* holds what it held before; after reset(None) no source holds a box.     *)
(***************************************************************************)
C18_ResetScope ==
    \A n \in DOMAIN roiCall :
        roiCall[n].op = "reset" =>
            IF roiCall[n].source_id = NoSource
            THEN \A s \in RoiSources : get_roi(roi, s) = None
            ELSE /\ get_roi(roi, roiCall[n].source_id) = None
                 /\ \A s \in RoiSources \ {roiCall[n].source_id} :
                        get_roi(roi, s) = get_roi(roiCall[n].before, s)

\* both sources held a box, one of them was reset and the other still holds its box
C18_Witness ==
    \E n \in DOMAIN roiCall :
        /\ roiCall[n].op = "reset"
        /\ roiCall[n].source_id # NoSource
        /\ \A s \in RoiSources : get_roi(roiCall[n].before, s) # None
        /\ get_roi(roi, roiCall[n].source_id) = None
        /\ \E s \in RoiSources : get_roi(roi, s) # None

(***************************************************************************)
(* C19. Whatever calls of update_from_detections and reset were made,      *)
(* every box stored for a source is square.                                *)
(***************************************************************************)
C19_StoredSquare ==
    \A s \in DOMAIN roi : roi[s] # None => is_square(roi[s])

(***************************************************************************)
(* C20. When every update_from_detections was given the same frame shape,  *)
(* every box stored for a source, smoothed or not, has                     *)
(* 0 <= x1 < x2 <= frame width and 0 <= y1 < y2 <= frame height.           *)
(***************************************************************************)
C20_StoredInsideFrame ==
    \A frame_shape \in ShapesSoFar :
        ShapesSoFar = {frame_shape} =>
            \A s \in DOMAIN roi :
                roi[s] # None =>
                    /\ 0 <= roi[s].x1 /\ roi[s].x1 < roi[s].x2
                    /\ roi[s].x2 <= frame_shape[2]
                    /\ 0 <= roi[s].y1 /\ roi[s].y1 < roi[s].y2
                    /\ roi[s].y2 <= frame_shape[1]

(***************************************************************************)
(* C21. transform_predictions_vectorized keeps the number and order of the *)
(* detections and their class, confidence, width and height; one           *)
(* application adds the offset to every centre; with offset None the       *)
(* predictions come back as they were, however often it is applied.        *)
(***************************************************************************)
C21_SameButCentre(before, after) ==
    /\ after.width = before.width /\ after.height = before.height
    /\ after.class = before.class /\ after.confidence = before.confidence

C21_OnlyCentresMove ==
    \A n \in DOMAIN fnCall :
        fnCall[n].op = "transform_predictions_vectorized" =>
            LET p == fnCall[n].predictions
                r == fnCall[n].result
                o == fnCall[n].crop_offset
            IN /\ DOMAIN r = DOMAIN p
               /\ o = None => r = p
               /\ "predictions" \in DOMAIN p =>
                     /\ r.time = p.time
                     /\ Len(r.predictions) = Len(p.predictions)
                     /\ \A i \in DOMAIN p.predictions :
                           /\ C21_SameButCentre(p.predictions[i], r.predictions[i])
                           /\ (o # None /\ fnCall[n].times = 1) =>
                                 /\ r.predictions[i].x = p.predictions[i].x + DetScale * o[1]
                                 /\ r.predictions[i].y = p.predictions[i].y + DetScale * o[2]

\* two detections of different classes shifted once by an offset with two different,
\* non-zero components
C21_Witness ==
    \E n \in DOMAIN fnCall :
        /\ fnCall[n].op = "transform_predictions_vectorized"
        /\ fnCall[n].times = 1
        /\ fnCall[n].crop_offset # None
        /\ fnCall[n].crop_offset[1] > 0
        /\ fnCall[n].crop_offset[2] > fnCall[n].crop_offset[1]
        /\ "predictions" \in DOMAIN fnCall[n].predictions
        /\ Len(fnCall[n].predictions.predictions) = 2
        /\ fnCall[n].predictions.predictions[1].class
               # fnCall[n].predictions.predictions[2].class
        /\ fnCall[n].result # fnCall[n].predictions

(***************************************************************************)
(* C22. Whatever the frame (at least one pixel) and the box, the frame     *)
(* crop_frame_if_roi returns has an image of at least one pixel; when the  *)
(* box selects no pixel of the frame, the frame returned is the one that   *)
(* was passed and the offset is None.                                      *)
(***************************************************************************)
C22_CropNeverEmpty ==
    \A n \in DOMAIN fnCall :
        fnCall[n].op = "crop_frame_if_roi" =>
            LET c == fnCall[n]
            IN /\ ImageSize(c.result.frame.image) >= 1
               /\ (c.roi # None /\ ImageSize(CropView(c.video_frame.image, c.roi)) = 0) =>
                      /\ c.result.frame = c.video_frame
                      /\ c.result.offset = None

\* a box that lies wholly outside a frame, whose call returned the full frame
C22_Witness ==
    \E n \in DOMAIN fnCall :
        /\ fnCall[n].op = "crop_frame_if_roi"
        /\ fnCall[n].roi # None
        /\ fnCall[n].roi.x1 >= fnCall[n].video_frame.image.shape[2]
        /\ fnCall[n].roi.x1 < fnCall[n].roi.x2
        /\ fnCall[n].roi.y1 < fnCall[n].roi.y2
        /\ fnCall[n].result.frame = fnCall[n].video_frame
        /\ fnCall[n].result.offset = None

(***************************************************************************)
(* C23. Whenever adaptive_roi_inference applied a crop, with either        *)
(* resize_to_model setting, the detection the model reported where the     *)
(* crop image shows the full-frame point (X, Y) comes back centred at      *)
(* (X, Y).                                                                 *)
(***************************************************************************)
C23_MappedBack ==
    \A n \in DOMAIN fnCall :
        (/\ fnCall[n].op = "adaptive_roi_inference"
         /\ FrameToInfer(fnCall[n]) # fnCall[n].video_frame.image) =>
            /\ fnCall[n].result.predictions[1].x = fnCall[n].point[1]
            /\ fnCall[n].result.predictions[1].y = fnCall[n].point[2]

(***************************************************************************)
(* C24. As stated: calculate_iou(a, a) is 1 for every box a.               *)
(***************************************************************************)
C24_SelfIoUIsOne ==
    \A n \in DOMAIN fnCall :
        (fnCall[n].op = "calculate_iou" /\ fnCall[n].bbox1 = fnCall[n].bbox2) =>
            /\ fnCall[n].result.den > 0
            /\ fnCall[n].result.num = fnCall[n].result.den

(***************************************************************************)
(* C24, amended. calculate_iou(a, a) is 1 for every box a of positive      *)
(* width and height, and 0 for a box whose width or height is zero.        *)
(***************************************************************************)
C24_SelfIoUIsOneWithArea ==
    \A n \in DOMAIN fnCall :
        (fnCall[n].op = "calculate_iou" /\ fnCall[n].bbox1 = fnCall[n].bbox2) =>
            /\ fnCall[n].result.den > 0
            /\ (fnCall[n].bbox1.width > 0 /\ fnCall[n].bbox1.height > 0) =>
                   fnCall[n].result.num = fnCall[n].result.den
            /\ (fnCall[n].bbox1.width = 0 \/ fnCall[n].bbox1.height = 0) =>
                   fnCall[n].result.num = 0

\* a box of positive area, wider than high, compared with itself
C24_Witness ==
    \E n \in DOMAIN fnCall :
        /\ fnCall[n].op = "calculate_iou"
        /\ fnCall[n].bbox1 = fnCall[n].bbox2
        /\ fnCall[n].bbox1.width > fnCall[n].bbox1.height
        /\ fnCall[n].bbox1.height > 0
        /\ fnCall[n].result.num = fnCall[n].result.den

(***************************************************************************)
(* Helpers of the claims about find_best_match: the not-yet-matched        *)
(* indices of a call, the score a strategy gives a track, and whether the  *)
(* call returned the best unmatched track of the strategy at position k.   *)
(***************************************************************************)
Unmatched(p) == DOMAIN p.trackList \ p.matched_indices

ScoreOf(k, p, i) == calculate_similarity(strategies[k], p.detection, p.trackList[i])

ReturnsBestOf(k, p) ==
    /\ p.result.found
    /\ p.result.strategy = strategies[k].name
    /\ p.result.idx \in Unmatched(p)
    /\ ~ScoreGT(p.result.score, ScoreOf(k, p, p.result.idx))
    /\ ~ScoreGT(ScoreOf(k, p, p.result.idx), p.result.score)
    /\ \A i \in Unmatched(p) : ~ScoreGT(ScoreOf(k, p, i), p.result.score)

\* some unmatched track scores at or above the threshold of the enabled strategy k
C25_Qualifies(k, p) ==
    /\ strategies[k].enabled
    /\ \E i \in Unmatched(p) : MeetsThreshold(ScoreOf(k, p, i), strategies[k].threshold)

\* the same, with a score above zero
C25_QualifiesAboveZero(k, p) ==
    /\ strategies[k].enabled
    /\ \E i \in Unmatched(p) : /\ MeetsThreshold(ScoreOf(k, p, i), strategies[k].threshold)
                               /\ ScoreGT(ScoreOf(k, p, i), Zero)

(***************************************************************************)
(* C25. As stated: find_best_match returns the highest-scoring unmatched   *)
(* track of the first enabled strategy, in list order, for which some      *)
(* unmatched track scores at or above the strategy's threshold.            *)
(***************************************************************************)
C25_FirstQualifyingWins ==
    \A n \in DOMAIN probe : \A k \in DOMAIN strategies :
        (/\ C25_Qualifies(k, probe[n])
         /\ \A j \in 1..(k - 1) : ~C25_Qualifies(j, probe[n])) =>
            ReturnsBestOf(k, probe[n])

(***************************************************************************)
(* C25, amended. find_best_match returns the highest-scoring unmatched     *)
(* track of the first enabled strategy, in list order, for which some      *)
(* unmatched track scores above zero and at or above the strategy's        *)
(* threshold; what it returns never comes from a disabled strategy, nor    *)
(* from a later strategy when an earlier one qualifies.                    *)
(***************************************************************************)
C25_FirstQualifyingAboveZeroWins ==
    \A n \in DOMAIN probe :
        /\ \A k \in DOMAIN strategies :
              (/\ C25_QualifiesAboveZero(k, probe[n])
               /\ \A j \in 1..(k - 1) : ~C25_QualifiesAboveZero(j, probe[n])) =>
                  ReturnsBestOf(k, probe[n])
        /\ probe[n].result.found =>
              \E k \in DOMAIN strategies :
                  /\ strategies[k].name = probe[n].result.strategy
                  /\ strategies[k].enabled

\* the IoU strategy qualified with a score below 1 and its track was returned, although
\* the class-only strategy, enabled too, scores 1 on another unmatched track
C25_Witness ==
    \E n \in DOMAIN probe :
        /\ strategies[1].enabled /\ strategies[2].enabled
        /\ probe[n].result.found
        /\ probe[n].result.strategy = strategies[1].name
        /\ ScoreGT(One, probe[n].result.score)
        /\ \E i \in Unmatched(probe[n]) :
              /\ i # probe[n].result.idx
              /\ ScoreOf(2, probe[n], i) = One

(***************************************************************************)
(* C26. find_best_match never returns an index of matched_indices, and     *)
(* returns none when the track list is empty, when every index is matched  *)
(* already, and when no enabled strategy has an unmatched track scoring at *)
(* or above its threshold.                                                 *)
(***************************************************************************)
C26_NeverMatchedNoneWhenNothingQualifies ==
    \A n \in DOMAIN probe :
        /\ probe[n].result.found =>
              /\ probe[n].result.idx \in DOMAIN probe[n].trackList
              /\ probe[n].result.idx \notin probe[n].matched_indices
        /\ probe[n].trackList = <<>> => ~probe[n].result.found
        /\ Unmatched(probe[n]) = {} => ~probe[n].result.found
        /\ (\A k \in DOMAIN strategies : ~C25_Qualifies(k, probe[n])) =>
              ~probe[n].result.found

\* both strategies are enabled, the only track of the detection's class and box is
\* matched already, the other track is not: none is returned
C26_Witness ==
    \E n \in DOMAIN probe :
        /\ strategies[1].enabled /\ strategies[2].enabled
        /\ Len(probe[n].trackList) = 2
        /\ probe[n].matched_indices = {1}
        /\ probe[n].trackList[1].class_name = probe[n].detection.class
        /\ SameBox(probe[n].trackList[1], probe[n].detection)
        /\ probe[n].trackList[2].class_name # probe[n].detection.class
        /\ ~probe[n].result.found

\* the matcher has the default hierarchy: IoU first, class-only second, both enabled
DefaultHierarchy == \E thr \in IoUThresholds : strategies = DefaultStrategies(thr)

SameClassUnmatched(p) ==
    {i \in Unmatched(p) : p.trackList[i].class_name = p.detection.class}

(***************************************************************************)
(* C27. As stated: with the default hierarchy a detection is matched       *)
(* whenever an unmatched track of its class exists, by IoU when some such  *)
(* track reaches the IoU threshold and by the class-only strategy          *)
(* otherwise.                                                              *)
(***************************************************************************)
C27_FallbackNeverFails ==
    \A n \in DOMAIN probe :
        (DefaultHierarchy /\ SameClassUnmatched(probe[n]) # {}) =>
            /\ probe[n].result.found
            /\ probe[n].result.strategy =
                  IF \E i \in SameClassUnmatched(probe[n]) :
                        MeetsThreshold(ScoreOf(1, probe[n], i), strategies[1].threshold)
                  THEN "IoUMatchingStrategy" ELSE "ClassOnlyStrategy"

(***************************************************************************)
(* C27, amended. With the default hierarchy a detection is matched         *)
(* whenever an unmatched track of its class exists, to a track of its      *)
(* class: by IoU when some such track overlaps it and reaches the IoU      *)
(* threshold, and by the class-only strategy otherwise.                    *)
(***************************************************************************)
C27_FallbackNeverFailsOverlap ==
    \A n \in DOMAIN probe :
        (DefaultHierarchy /\ SameClassUnmatched(probe[n]) # {}) =>
            /\ probe[n].result.found
            /\ probe[n].result.idx \in SameClassUnmatched(probe[n])
            /\ probe[n].result.strategy =
                  IF \E i \in SameClassUnmatched(probe[n]) :
                        /\ MeetsThreshold(ScoreOf(1, probe[n], i), strategies[1].threshold)
                        /\ ScoreGT(ScoreOf(1, probe[n], i), Zero)
                  THEN "IoUMatchingStrategy" ELSE "ClassOnlyStrategy"

\* the only unmatched track of the detection's class does not overlap it at all and
\* the threshold is the default one: the class-only strategy matched it
C27_Witness ==
    \E n \in DOMAIN probe :
        /\ strategies = DefaultStrategies(DefaultIoUThreshold)
        /\ Cardinality(SameClassUnmatched(probe[n])) = 1
        /\ \A i \in SameClassUnmatched(probe[n]) :
              /\ ScoreOf(1, probe[n], i) = Zero
              /\ probe[n].result.idx = i
        /\ probe[n].result.found
        /\ probe[n].result.strategy = "ClassOnlyStrategy"

(***************************************************************************)
(* C28. Every process call of the NoOp stabilizer returns the list it was  *)
(* given, for every input and every source, whatever calls were made       *)
(* before it.                                                              *)
(***************************************************************************)
C28_NoOpReturnsInput ==
    \A n \in DOMAIN fnCall :
        fnCall[n].op = "process" => fnCall[n].result = fnCall[n].detections

\* after a call with two detections on one source, a call on the other source with a
\* single detection below appear_conf returned that detection
C28_Witness ==
    /\ Len(fnCall) = 2
    /\ fnCall[1].op = "process" /\ fnCall[2].op = "process"
    /\ fnCall[1].source_id # fnCall[2].source_id
    /\ Len(fnCall[1].detections) = 2
    /\ Len(fnCall[2].detections) = 1
    /\ fnCall[2].detections[1].confidence < DefaultAppearConf
    /\ fnCall[2].result = fnCall[2].detections

\* parameters that construction-time validation is to reject
RejectedParams(c) ==
    \/ c.persist_conf > c.appear_conf
    \/ c.min_frames < 1
    \/ c.max_gap < 0

(***************************************************************************)
(* C29. No temporal stabilizer is ever built with persist_conf >           *)
(* appear_conf, min_frames < 1 or max_gap < 0, and no frame is ever        *)
(* processed by a stabilizer with such parameters.                         *)
(***************************************************************************)
C29_InvalidNeverBuilt ==
    /\ \A n \in DOMAIN built :
          IsTemporal(built[n].outcome) => ~RejectedParams(built[n].outcome)
    /\ frame > 0 => ~RejectedParams(cfg)

(***************************************************************************)
(* C30. No ROI state is ever built with min_roi_multiple above             *)
(* max_roi_multiple, nor a fixed ROI whose bounds do not satisfy           *)
(* 0 <= min < max <= 1 on both axes; what is built has the values that     *)
(* were passed.                                                            *)
(***************************************************************************)
C30_InvalidRoiNeverBuilt ==
    \A n \in DOMAIN built :
        /\ IsROIState(built[n].outcome) =>
              built[n].outcome.min_roi_multiple <= built[n].outcome.max_roi_multiple
        /\ IsFixedROIState(built[n].outcome) =>
              /\ NormalizedRange(built[n].outcome.x_min, built[n].outcome.x_max)
              /\ NormalizedRange(built[n].outcome.y_min, built[n].outcome.y_max)

(***************************************************************************)
(* The controller's claims.  LastCtl is the handler the control plane's    *)
(* thread runs or has last run.                                            *)
(***************************************************************************)
\* the control plane's thread has run the handler op to its end
Handled(op) == ctlCall # <<>> /\ pcMqtt = "idle" /\ Running = op

LoopEnded == phase \in {"returned", "exited"}

C32_StopIgnoredWhenNotRunning ==
    (Handled("_handle_stop") /\ ~LastCtl.before.is_running) =>
        /\ LastCtl.result.called = <<>>
        /\ shutdown_event = LastCtl.before.shutdown_event

(***************************************************************************)
(* C33. Once setup() has created and connected the control plane, pause,   *)
(* resume and stop are in its command registry in every ROI and            *)
(* stabilization mode, and a message naming one of them executes its       *)
(* handler.                                                                *)
(***************************************************************************)
BasicCommands == {"pause", "resume", "stop"}

C33_BasicCommandsRegistered ==
    /\ Listening => BasicCommands \subseteq registry
    /\ (ctlCall # <<>> /\ LastCtl.op = "_on_message"
           /\ LowerCommand(LastCtl.args[1]) \in BasicCommands) =>
           LastCtl.result.executed

(***************************************************************************)
(* C38. Each TOGGLE_CROP handled in adaptive mode by a controller with an  *)
(* adaptive handler flips the handler's enabled state, and a frame the     *)
(* handler processes while it is disabled is not cropped.                  *)
(***************************************************************************)
C38_ToggleFlipsEnabled ==
    /\ (Handled("_handle_toggle_crop") /\ ctlCfg.ROI_MODE = "adaptive"
           /\ LastCtl.before.handler # None) =>
           /\ LastCtl.result.raised = ""
           /\ handler.enabled = ~LastCtl.before.handler.enabled
    /\ (fnCall # <<>> /\ ~fnCall[1].before.handler.enabled) =>
           ~fnCall[1].result.crop_metadata.crop_applied

(***************************************************************************)
(* C40. In every interleaving of _handle_stop on the control plane's       *)
(* thread with _signal_handler and cleanup() on the main thread,           *)
(* pipeline.terminate() returns normally at most once, and is_running is   *)
(* false once one of them has had terminate() return and has cleared the   *)
(* flag.                                                                   *)
(***************************************************************************)
\* the threads for which terminate() has returned and that have yet to clear the flag
C40_AboutToClear ==
    {pc \in {<<1, pcMqtt>>, <<2, pcMain>>} : pc[2] = "clear"}
        \cup {<<2 + n, pcSig[n]>> : n \in {k \in DOMAIN pcSig : pcSig[k] = "clear"}}

C40_TerminateAtMostOnce ==
    /\ pipeline # None => pipeline.terminated <= 1
    /\ (pipeline # None /\ pipeline.terminated > Cardinality(C40_AboutToClear)) =>
           ~is_running

(***************************************************************************)
(* C34. At the end of the frame in which a track is created (an unmatched  *)
(* detection with confidence >= appear_conf), that track has               *)
(* consecutive_frames = 1 and gap_frames = 0, and no later detection of    *)
(* the same frame is matched to it.                                        *)
(***************************************************************************)
C34_Created(e) == e.kind = "unmatched" /\ e.det.confidence >= cfg.appear_conf

C34_CreationFrameCounts ==
    \A n \in DOMAIN matchLog :
        C34_Created(matchLog[n]) =>
            /\ TrackAfter(matchLog[n]).consecutive_frames = 1
            /\ TrackAfter(matchLog[n]).gap_frames = 0
            /\ \A k \in DOMAIN matchLog :
                  ~(/\ k > n
                    /\ matchLog[k].kind = "matched"
                    /\ matchLog[k].cls = matchLog[n].cls
                    /\ matchLog[k].idx = matchLog[n].idx)

(***************************************************************************)
(* C36. Every record returned by process() for a frame is one of the       *)
(* detections given to that call (class, box and confidence), and the      *)
(* returned list is no longer than the given one; so nothing is returned   *)
(* for a frame without detections.                                         *)
(***************************************************************************)
C36_EmitsOnlyThisFramesDetections ==
    frame >= 1 =>
        /\ Len(lastOut) <= Len(lastDets)
        /\ \A i \in DOMAIN lastOut : \E j \in DOMAIN lastDets : lastOut[i] = lastDets[j]

\* a frame with two detections returns one of them while a confirmed track that was
\* not updated in this frame stays live, out of the output
C36_Witness ==
    /\ frame >= 1
    /\ Len(lastDets) = 2
    /\ Len(lastOut) = 1
    /\ \E t \in AllTracks(Live) : t.confirmed /\ t.gap_frames >= 1

(***************************************************************************)
(* C37. After every process() call each live track of the processed source *)
(* has gap_frames <= max_gap, and none has both gap_frames > 0 and         *)
(* consecutive_frames > 0.                                                 *)
(***************************************************************************)
C37_LiveTracksWithinGap ==
    frame >= 1 =>
        \A t \in AllTracks(Live) :
            /\ t.gap_frames <= cfg.max_gap
            /\ ~(t.gap_frames > 0 /\ t.consecutive_frames > 0)

\* a track that had been seen in consecutive frames was missed in the last call, has
\* used up max_gap and is still live
C37_Witness ==
    /\ frame >= 1
    /\ cfg.max_gap >= 1
    /\ \E p \in Positions(prevTracks) :
          /\ prevTracks[p[1]].list[p[2]].consecutive_frames >= 1
          /\ p \in Positions(preEvict)
          /\ preEvict[p[1]].list[p[2]].gap_frames = cfg.max_gap
          /\ preEvict[p[1]].list[p[2]].consecutive_frames = 0
          /\ preEvict[p[1]].list[p[2]] \in AllTracks(Live)

(***************************************************************************)
(* C35. Whatever the accepted configuration (max_gap = 0 included), one    *)
(* object detected in every frame with confidence >= appear_conf is        *)
(* returned by some process() call, and once it has been returned it is    *)
(* returned by every later call.                                           *)
(***************************************************************************)
C35_Shown == frame >= 1 /\ lastOut = lastDets

C35_EventuallyEmittedForGood == <>C35_Shown /\ [](C35_Shown => []C35_Shown)

(***************************************************************************)
(* C39. On the docstring's example (min_frames 3, max_gap 2, appear_conf   *)
(* 0.5, persist_conf 0.3; confidences 0.45, 0.52, 0.48, 0.51, 0.35, then   *)
(* two frames without detection): frame 1 leaves no track; frame 2 starts  *)
(* a track (1 of 3); frame 3 keeps it accumulating, unconfirmed (2 of 3);  *)
(* frame 4 confirms it and is the first to return the detection; frame 5   *)
(* returns it too; the track is still there after frame 6 and removed at   *)
(* frame 7.                                                                *)
(***************************************************************************)
C39_OnExample == \A k \in DOMAIN tape : tape[k].dets = ExampleFrames[k]

\* the single track left by frame k of the tape
C39_Track(k) == TracksOf(tape[k].tracks, "person")[1]

C39_DocstringExample ==
    C39_OnExample =>
        /\ Len(tape) >= 1 => NumTracks(tape[1].tracks) = 0 /\ tape[1].out = <<>>
        /\ Len(tape) >= 2 =>
              /\ NumTracks(tape[2].tracks) = 1
              /\ C39_Track(2).consecutive_frames = 1
              /\ ~C39_Track(2).confirmed
              /\ tape[2].out = <<>>
        /\ Len(tape) >= 3 =>
              /\ NumTracks(tape[3].tracks) = 1
              /\ C39_Track(3).consecutive_frames = 2
              /\ ~C39_Track(3).confirmed
              /\ tape[3].out = <<>>
        /\ Len(tape) >= 4 =>
              /\ NumTracks(tape[4].tracks) = 1
              /\ C39_Track(4).confirmed
              /\ tape[4].out = ExampleFrames[4]
        /\ Len(tape) >= 5 => tape[5].out = ExampleFrames[5]
        /\ Len(tape) >= 6 => NumTracks(tape[6].tracks) = 1
        /\ Len(tape) >= 7 => NumTracks(tape[7].tracks) = 0

====
